---- MODULE Spec2Model ----
(***************************************************************************)
(* Events calendar (Airtable -> dashboard): the cached table fetcher, the  *)
(* event reconciler in its two versions (reservation scan, src/app.py, and *)
(* PEOPLE RESERVED link field, src/app_backup.py), the conflict and travel *)
(* connection detectors and the category (SET) resolution.                 *)
(*                                                                         *)
(* Time is counted in seconds since the instance was constructed.  Dates   *)
(* are <<year, month, day>> triples, as the '%Y-%m-%d' strings of the      *)
(* record store spell them; a parsed date is its proleptic Gregorian       *)
(* ordinal, as datetime.date counts it.                                    *)
(***************************************************************************)
EXTENDS Integers, Sequences, FiniteSets, TLC

VARIABLES
    now,            \* datetime.now(), seconds
    store,          \* the record store: table name -> sequence of pages
    cache,          \* self.cache: cache key -> records
    cache_expiry,   \* self.cache_expiry: cache key -> time
    last,           \* the most recent get_airtable_data call, as observed
    fetched,        \* table name -> the most recent call that went to the store
    version,        \* which application runs: "enterprise" (app.py), "aks" (app_backup.py)
    result,         \* what process_motorsport_data returned, or how it ended
    championship,   \* argument of _determine_set
    set_name,       \* what _determine_set returned
    calendar_instance,      \* the global: None, or the configuration of the instance
    scheduler_running,      \* the global scheduler_running
    cached_dashboard_data,  \* the global: None, or what process_motorsport_data returned
    update_logs,    \* the rows of table update_logs of motorsport_logs.db
    last_update_status,     \* the global last_update_status
    update_stats,   \* the global update_stats
    schedule,       \* the jobs of the schedule module: none, or auto_update
    response,       \* the most recent request or scheduler run, as observed
    pc,             \* thread -> where the thread stands in its handler
    local           \* thread -> the values the thread holds

\* the globals of the web application and its threads
webVars == <<calendar_instance, scheduler_running, cached_dashboard_data,
             update_logs, last_update_status, update_stats, schedule,
             response, pc, local>>

vars == <<now, store, cache, cache_expiry, last, fetched, version, result,
          championship, set_name, calendar_instance, scheduler_running,
          cached_dashboard_data, update_logs, last_update_status, update_stats,
          schedule, response, pc, local>>

----------------------------------------------------------------------------
(* Bounds *)

MaxPages == 2
MaxTime == 602
MaxTokens == 2
MaxStartDay == 19
MaxLogRows == 2
MaxUpdates == 3
MaxAttempts == 2

----------------------------------------------------------------------------
(* Small helpers *)

None == "None"

RECURSIVE Flatten(_)
Flatten(ss) == IF ss = <<>> THEN <<>> ELSE Head(ss) \o Flatten(Tail(ss))

Range(s) == {s[i] : i \in 1..Len(s)}

\* Python's d.get(k, default) on a dict modelled as a function
Get(d, k, default) == IF k \in DOMAIN d THEN d[k] ELSE default

Threads == {"reader", "refresher"}

NoResponse == [route |-> None]

\* the value None of the globals calendar_instance and cached_dashboard_data
NoInstance == [configured |-> FALSE]
NoData == [status |-> "none"]

\* the module-level globals of the web application, no request served yet
InitWeb ==
    /\ calendar_instance = NoInstance
    /\ scheduler_running = FALSE
    /\ cached_dashboard_data = NoData
    /\ update_logs = <<>>
    /\ last_update_status = [success |-> FALSE, timestamp |-> <<>>, message |-> ""]
    /\ update_stats = [total_updates |-> 0, successful_updates |-> 0]
    /\ schedule = <<>>
    /\ response = NoResponse
    /\ pc = [t \in Threads |-> "idle"]
    /\ local = [t \in Threads |-> <<>>]

----------------------------------------------------------------------------
(* The cached table fetcher: get_airtable_data *)

max_retries == 3
CacheTTL == 300                 \* timedelta(minutes=5), in seconds
DatetimeMin == -1               \* datetime.min: earlier than every now

FetchTables == {"EVENTS", "EVENTS RESERVATIONS"}

CacheKey(table_name) == <<"airtable", table_name>>

NoOffset == 0

\* The record store answering one GET: the page after the cursor, and the next
\* cursor unless this was the last page.
Server(pages, offset) ==
    [records |-> pages[offset + 1],
     offset  |-> IF offset + 1 < Len(pages) THEN offset + 1 ELSE NoOffset]

\* The while loop of get_airtable_data.  The failAt-th request of the call does
\* not succeed (0: every request succeeds): kind "http_error" is a response
\* whose status is not 200, kind "exception" is requests.get or response.json
\* raising.  requests lists the offset parameter of every GET issued.
\* FetchLoop leaving the loop after its first page, whatever cursor it carries
FetchLoopFirstPageOnly(pages, failAt, kind, offset, all_records, requests) ==
    LET sent == Append(requests, offset) IN
    IF Len(sent) = failAt
    THEN [status |-> kind, all_records |-> all_records, requests |-> sent]
    ELSE [status |-> "ok",
          all_records |-> all_records \o Server(pages, offset).records,
          requests |-> sent]

RECURSIVE FetchLoop(_, _, _, _, _, _)
FetchLoop(pages, failAt, kind, offset, all_records, requests) ==
    LET sent == Append(requests, offset) IN
    IF Len(sent) = failAt
    THEN [status |-> kind, all_records |-> all_records, requests |-> sent]
    ELSE LET data == Server(pages, offset)
             recs == all_records \o data.records
         IN  IF data.offset # NoOffset
             THEN FetchLoop(pages, failAt, kind, data.offset, recs, sent)
             ELSE [status |-> "ok", all_records |-> recs, requests |-> sent]

\* get_airtable_data serving whatever the cache holds, expired or not
GetAirtableDataNoExpiry(c, e, pages, table_name, t, failAt, kind) ==
    LET cache_key == CacheKey(table_name) IN
    IF cache_key \in DOMAIN c
    THEN [records |-> c[cache_key], cache |-> c, cache_expiry |-> e,
          status |-> "cached", requests |-> <<>>]
    ELSE LET f == FetchLoop(pages, failAt, kind, NoOffset, <<>>, <<>>) IN
         IF f.status # "exception" /\ f.all_records # <<>>
         THEN [records |-> f.all_records,
               cache |-> (cache_key :> f.all_records) @@ c,
               cache_expiry |-> (cache_key :> (t + CacheTTL)) @@ e,
               status |-> f.status, requests |-> f.requests]
         ELSE [records |-> IF f.status = "exception" THEN <<>> ELSE f.all_records,
               cache |-> c, cache_expiry |-> e,
               status |-> f.status, requests |-> f.requests]

\* get_airtable_data(table_name) at time t on cache c / expiry e.
\* Returns the records it returns, the cache it leaves and what it did.
GetAirtableData(c, e, pages, table_name, t, failAt, kind) ==
    LET cache_key == CacheKey(table_name) IN
    IF cache_key \in DOMAIN c /\ t < Get(e, cache_key, DatetimeMin)
    THEN [records |-> c[cache_key], cache |-> c, cache_expiry |-> e,
          status |-> "cached", requests |-> <<>>]
    ELSE LET f == FetchLoop(pages, failAt, kind, NoOffset, <<>>, <<>>) IN
         IF f.status = "exception"
         THEN [records |-> <<>>, cache |-> c, cache_expiry |-> e,
               status |-> f.status, requests |-> f.requests]
         ELSE IF f.all_records # <<>>
              THEN [records |-> f.all_records,
                    cache |-> (cache_key :> f.all_records) @@ c,
                    cache_expiry |-> (cache_key :> (t + CacheTTL)) @@ e,
                    status |-> f.status, requests |-> f.requests]
              ELSE [records |-> f.all_records, cache |-> c, cache_expiry |-> e,
                    status |-> f.status, requests |-> f.requests]

FailKinds == {"http_error", "exception"}

----------------------------------------------------------------------------
(* Dates.  A date field of a record is the triple <<y, m, d>> its string    *)
(* 'y-m-d' spells; a string that spells no triple at all is BadDateText.    *)

BadDateText == <<0, 0, 0>>

IsLeap(y) == (y % 4 = 0) /\ ((y % 100 # 0) \/ (y % 400 = 0))

DaysInMonth(y, m) ==
    IF m = 2 THEN (IF IsLeap(y) THEN 29 ELSE 28)
    ELSE IF m \in {4, 6, 9, 11} THEN 30 ELSE 31

\* datetime.strptime(text, '%Y-%m-%d') succeeds
Parses(text) ==
    /\ text[1] \in 1..9999
    /\ text[2] \in 1..12
    /\ text[3] \in 1..DaysInMonth(text[1], text[2])

RECURSIVE DaysBeforeMonth(_, _)
DaysBeforeMonth(y, m) ==
    IF m = 1 THEN 0 ELSE DaysBeforeMonth(y, m - 1) + DaysInMonth(y, m - 1)

\* date.toordinal(): what date comparison and subtraction work on
Ord(d) ==
    LET p == d[1] - 1 IN
    p * 365 + (p \div 4) - (p \div 100) + (p \div 400)
        + DaysBeforeMonth(d[1], d[2]) + d[3]

\* (d1 - d2).days
DaysBetween(d1, d2) == Ord(d1) - Ord(d2)

WindowDays == 365               \* timedelta(days=365)

----------------------------------------------------------------------------
(* Category (SET) resolution: _determine_set.  Strings are sequences of     *)
(* characters.                                                              *)

LowerLetters == <<"a", "b", "c", "d", "e", "f", "g", "h", "i", "j", "k", "l", "m", "n", "o", "p", "q", "r", "s", "t", "u", "v", "w", "x", "y", "z">>
UpperLetters == <<"A", "B", "C", "D", "E", "F", "G", "H", "I", "J", "K", "L", "M", "N", "O", "P", "Q", "R", "S", "T", "U", "V", "W", "X", "Y", "Z">>

\* str.upper() on one character of the alphabet a-z, A-Z, digits, space
UpperChar(c) ==
    IF \E i \in DOMAIN LowerLetters : LowerLetters[i] = c
    THEN UpperLetters[CHOOSE i \in DOMAIN LowerLetters : LowerLetters[i] = c]
    ELSE c

LowerChar(c) ==
    IF \E i \in DOMAIN UpperLetters : UpperLetters[i] = c
    THEN LowerLetters[CHOOSE i \in DOMAIN UpperLetters : UpperLetters[i] = c]
    ELSE c

Upper(str) == [i \in DOMAIN str |-> UpperChar(str[i])]
Lower(str) == [i \in DOMAIN str |-> LowerChar(str[i])]

\* Python's  key in text
Contains(text, key) ==
    \E i \in 0..(Len(text) - Len(key)) : SubSeq(text, i + 1, i + Len(key)) = key

\* self.championship_to_set, in the order the dict literal declares it
championship_to_set ==
    << <<<<"W", "E", "C">>, "SET 1">>,
       <<<<"F", "I", "A">>, "SET 1">>,
       <<<<"C", "I", "R", "C", "U", "I", "T", "C", "A", "T">>, "SET 2">>,
       <<<<"K", "A", "T", "E", "Y", "A", "M", "A">>, "SET 2">>,
       <<<<"F", "E", "R", "R", "A", "R", "I">>, "SET 3">>,
       <<<<"M", "C", "L", "A", "R", "E", "N">>, "SET 3">>,
       <<<<"E", "L", "M", "S">>, "SET 5">>,
       <<<<"F", "4">>, "SET RW">>,
       <<<<"E", "3">>, "SET RW">>,
       <<<<"G", "S", "E", "R", "I", "E", "S">>, "SET RW">>,
       <<<<"E", "1">>, "SET6">>,
       <<<<"S", "C", "E", "R">>, "SCER">>,
       <<<<"C", "E", "R", "V", "H">>, "CERVH">> >>

DefaultSet == "default"

\* the for loop of _determine_set over the table from its k-th entry
RECURSIVE FirstMatch(_, _, _)
FirstMatch(table, k, championship_upper) ==
    IF k > Len(table) THEN DefaultSet
    ELSE IF Contains(championship_upper, table[k][1]) THEN table[k][2]
         ELSE FirstMatch(table, k + 1, championship_upper)

\* _determine_set comparing the keywords with the string as given
DetermineSetCaseSensitive(champ) ==
    IF champ = <<>> THEN DefaultSet
    ELSE FirstMatch(championship_to_set, 1, champ)

_determine_set(champ) ==
    IF champ = <<>> THEN DefaultSet
    ELSE FirstMatch(championship_to_set, 1, Upper(champ))

----------------------------------------------------------------------------
(* Records of the store.  A record is [id, fields]; fields is a function    *)
(* from the names of the fields the record carries (the store leaves out a  *)
(* field that is not set) to their values.  Entries keep the fields the     *)
(* detectors and statistics read; the display-only ones (city, colour,      *)
(* coordinator, week, month) are left out.                                  *)

F_CHAMPIONSHIP == "CAMPEONATO-CIRCUITO-ENTIDAD (from CHAMPIONSHIP)"
F_PEOPLE == "PEOPLE RESERVED"
F_EMPLOYEE_LINK == "Employee directory"
F_EMPLOYEE_NAME == "Name (from Employee directory)"

\* fields.get(name, [''])[0] if fields.get(name) else default
FirstOf(fields, name, default) ==
    IF name \in DOMAIN fields /\ fields[name] # <<>> THEN fields[name][1]
    ELSE default

\* both date fields are there and strptime takes both
DatesParse(fields, from, to) ==
    /\ from \in DOMAIN fields
    /\ to \in DOMAIN fields
    /\ Parses(fields[from])
    /\ Parses(fields[to])

\* list.sort(key=...): stable insertion of x behind the elements whose key is
\* not greater
RECURSIVE InsertByKey(_, _)
InsertByKey(x, sorted) ==
    IF sorted = <<>> THEN <<x>>
    ELSE IF x.key < Head(sorted).key THEN <<x>> \o sorted
         ELSE <<Head(sorted)>> \o InsertByKey(x, Tail(sorted))

RECURSIVE StableSort(_)
StableSort(keyed) ==
    IF keyed = <<>> THEN <<>>
    ELSE InsertByKey(keyed[Len(keyed)], StableSort(SubSeq(keyed, 1, Len(keyed) - 1)))

\* events.sort(key=lambda x: x['from_date'])
SortByFromDate(events) ==
    LET sorted == StableSort([i \in DOMAIN events |->
                                 [key |-> Ord(events[i].from_date), val |-> events[i]]])
    IN  [i \in DOMAIN sorted |-> sorted[i].val]

\* d[k] = d.get(k, 0) + 1
Increment(d, k) == (k :> (Get(d, k, 0) + 1)) @@ d

EmptyStats ==
    [total_events |-> 0, confirmed_events |-> 0, unassigned_events |-> 0,
     total_reservations |-> 0, remote_assignments |-> 0,
     events_by_set |-> <<>>, critical_dates |-> <<>>]

\* IsUnassigned without the test of the CONFIRMED flag
IsUnassignedIgnoringConfirmed(event_reservations, confirmed) ==
    Len(event_reservations) = 0

\* len(event_reservations) == 0 and confirmed
IsUnassigned(event_reservations, confirmed) ==
    Len(event_reservations) = 0 /\ confirmed

\* IsCriticalDate for every event that starts within a week, staffed or not
IsCriticalDateAnyStaffing(fields, start_date, unassigned) ==
    DaysBetween(fields["From"], start_date) <= 7

\* (event_start - start_date).days <= 7 and len(event_reservations) == 0 and
\* confirmed
IsCriticalDate(fields, start_date, unassigned) ==
    DaysBetween(fields["From"], start_date) <= 7 /\ unassigned

\* the part of the loop body over events_data both versions share: the entry of
\* an event whose reservations are known, and the lists and statistics after it.
\* remote is the number of remote assignments counted while resolving them.
AddEvent(acc, event_record, event_reservations, remote, start_date) ==
    LET fields == event_record.fields
        champ == FirstOf(fields, F_CHAMPIONSHIP, <<>>)
        set == _determine_set(champ)
        confirmed == Get(fields, "CONFIRMED", FALSE)
        unassigned == IsUnassigned(event_reservations, confirmed)
        event_entry ==
            [event_id |-> event_record.id,
             event_name |-> Get(fields, "EVENT NAME", "Sin nombre"),
             championship |-> champ,
             set_name |-> set,
             confirmed |-> confirmed,
             from_date |-> fields["From"],
             to_date |-> fields["To"],
             duration_days |-> DaysBetween(fields["To"], fields["From"]) + 1,
             reservations |-> event_reservations,
             employees_count |-> Len(event_reservations),
             needs_attention |-> unassigned]
        st == acc.stats
    IN  [processed_events |-> Append(acc.processed_events, event_entry),
         unassigned_events |->
             IF unassigned THEN Append(acc.unassigned_events, event_entry)
             ELSE acc.unassigned_events,
         stats |->
             [total_events |-> st.total_events + 1,
              confirmed_events |-> st.confirmed_events + (IF confirmed THEN 1 ELSE 0),
              unassigned_events |-> st.unassigned_events + (IF unassigned THEN 1 ELSE 0),
              total_reservations |-> st.total_reservations + Len(event_reservations),
              remote_assignments |-> st.remote_assignments + remote,
              events_by_set |-> Increment(st.events_by_set, set),
              critical_dates |->
                  IF IsCriticalDate(fields, start_date, unassigned)
                  THEN Append(st.critical_dates, event_entry)
                  ELSE st.critical_dates]]

\* SkipsEvent keeping only the events that start and end inside the window
SkipsEventNotInside(event_record, start_date) ==
    LET fields == event_record.fields IN
    \/ ~DatesParse(fields, "From", "To")
    \/ Ord(fields["From"]) < Ord(start_date)
    \/ Ord(fields["To"]) > Ord(start_date) + WindowDays

\* the loop over events_data skips the record: a date field is missing or does
\* not parse, or the event lies wholly outside start_date .. start_date + 365
SkipsEvent(event_record, start_date) ==
    LET fields == event_record.fields IN
    \/ ~DatesParse(fields, "From", "To")
    \/ Ord(fields["From"]) > Ord(start_date) + WindowDays
    \/ Ord(fields["To"]) < Ord(start_date)

EmptyAcc ==
    [processed_events |-> <<>>, unassigned_events |-> <<>>, stats |-> EmptyStats]

----------------------------------------------------------------------------
(* process_motorsport_data of src/app.py: reservations found by scanning    *)
(* the reservation records whose first EVENT link is the event.             *)

\* res_fields.get('EVENT', [''])[0] raises IndexError
EventLinkRaises(res_record) ==
    /\ "EVENT" \in DOMAIN res_record.fields
    /\ res_record.fields["EVENT"] = <<>>

\* res_fields.get('EVENT', [''])[0], where it does not raise
FirstEventLink(res_fields) ==
    IF "EVENT" \in DOMAIN res_fields THEN res_fields["EVENT"][1] ELSE ""

\* the inner loop over reservations_data for one event: the reservations
\* appended, in order
RECURSIVE ScanReservations(_, _)
ScanReservations(event_id, reservations_data) ==
    IF reservations_data = <<>> THEN <<>>
    ELSE LET res_fields == Head(reservations_data).fields
             rest == ScanReservations(event_id, Tail(reservations_data))
         IN  IF /\ FirstEventLink(res_fields) = event_id
                /\ DatesParse(res_fields, "FROM", "TO")
             THEN << [employee |-> FirstOf(res_fields, F_EMPLOYEE_NAME, "Sin asignar"),
                      from_date |-> res_fields["FROM"],
                      to_date |-> res_fields["TO"],
                      remote |-> Get(res_fields, "REMOTE", FALSE),
                      days |-> DaysBetween(res_fields["TO"], res_fields["FROM"]) + 1] >>
                  \o rest
             ELSE rest

CountRemote(reservations) ==
    Cardinality({i \in DOMAIN reservations : reservations[i].remote})

RECURSIVE EnterpriseLoop(_, _, _, _)
EnterpriseLoop(acc, events_data, reservations_data, start_date) ==
    IF events_data = <<>> THEN acc
    ELSE LET event_record == Head(events_data)
             event_reservations == ScanReservations(event_record.id, reservations_data)
         IN  EnterpriseLoop(
                 IF SkipsEvent(event_record, start_date) THEN acc
                 ELSE AddEvent(acc, event_record, event_reservations,
                               CountRemote(event_reservations), start_date),
                 Tail(events_data), reservations_data, start_date)

\* The value process_motorsport_data returns: status "empty" is the empty dict,
\* status "raised" an exception leaving the function.
ProcessEnterprise(events_data, reservations_data, start_date) ==
    IF events_data = <<>> THEN [status |-> "empty"]
    ELSE IF /\ \E i \in DOMAIN events_data : ~SkipsEvent(events_data[i], start_date)
            /\ \E j \in DOMAIN reservations_data : EventLinkRaises(reservations_data[j])
    THEN [status |-> "raised"]
    ELSE LET acc == EnterpriseLoop(EmptyAcc, events_data, reservations_data, start_date)
         IN  [status |-> "ok",
              events |-> SortByFromDate(acc.processed_events),
              unassigned_events |-> acc.unassigned_events,
              stats |-> acc.stats]

----------------------------------------------------------------------------
(* detect_conflicts and detect_travel_connections of src/app_backup.py      *)

\* the (employee, event) pairs in the order the two nested loops over events
\* and their reservations visit them
RECURSIVE Assignments(_)
Assignments(events) ==
    IF events = <<>> THEN <<>>
    ELSE LET event == Head(events) IN
         [i \in DOMAIN event.reservations |->
             [employee |-> event.reservations[i].employee,
              event |-> event.event_name,
              event_id |-> event.event_id,
              from |-> event.reservations[i].from_date,
              to |-> event.reservations[i].to_date,
              event_from |-> event.from_date,
              event_to |-> event.to_date]]
         \o Assignments(Tail(events))

\* the keys of a defaultdict in insertion order
RECURSIVE FirstSeen(_, _)
FirstSeen(names, seen) ==
    IF names = <<>> THEN <<>>
    ELSE IF Head(names) \in seen THEN FirstSeen(Tail(names), seen)
         ELSE <<Head(names)>> \o FirstSeen(Tail(names), seen \cup {Head(names)})

Employees(events) ==
    LET a == Assignments(events) IN
    FirstSeen([i \in DOMAIN a |-> a[i].employee], {})

\* employee_timelines[employee] after timeline.sort(key=lambda x: x['from'])
Timeline(events, employee) ==
    LET a == Assignments(events)
        own == SelectSeq([i \in DOMAIN a |-> [key |-> Ord(a[i].from), val |-> a[i]]],
                         LAMBDA x : x.val.employee = employee)
        sorted == StableSort(own)
    IN  [i \in DOMAIN sorted |-> sorted[i].val]

\* Overlaps taking a hand-over on the same day for no overlap
OverlapsStrictly(event1, event2) == Ord(event1.to) > Ord(event2.from)

\* event1['to'] >= event2['from'], event1 being the earlier of the timeline
Overlaps(event1, event2) == Ord(event1.to) >= Ord(event2.from)

\* strftime('%d/%m/%Y') and strftime('%d/%m')
DayMonthYear(d) == <<d[3], d[2], d[1]>>
DayMonth(d) == <<d[3], d[2]>>

\* f"{employee}_{event1_id}_{event2_id}"
ConflictKey(employee, event1, event2) ==
    <<employee, event1.event_id, event2.event_id>>

\* the two loops over i < j of one timeline, from the pair (i, j) on;
\* acc is [conflicts, conflict_details]
RECURSIVE ConflictPairs(_, _, _, _, _)
ConflictPairs(acc, employee, timeline, i, j) ==
    IF i > Len(timeline) THEN acc
    ELSE IF j > Len(timeline) THEN ConflictPairs(acc, employee, timeline, i + 1, i + 2)
    ELSE LET event1 == timeline[i]
             event2 == timeline[j]
             conflict_key == ConflictKey(employee, event1, event2)
         IN  ConflictPairs(
                 IF Overlaps(event1, event2)
                    /\ conflict_key \notin acc.conflict_details
                 THEN [conflicts |-> Append(acc.conflicts,
                           [employee |-> employee,
                            event1 |-> event1.event,
                            event1_id |-> event1.event_id,
                            event2 |-> event2.event,
                            event2_id |-> event2.event_id,
                            overlap_start |-> DayMonthYear(event2.from),
                            overlap_end |-> DayMonthYear(
                                IF Ord(event1.to) <= Ord(event2.to)
                                THEN event1.to ELSE event2.to),
                            event1_dates |-> <<DayMonth(event1.from), DayMonth(event1.to)>>,
                            event2_dates |-> <<DayMonth(event2.from), DayMonth(event2.to)>>]),
                       conflict_details |-> acc.conflict_details \cup {conflict_key}]
                 ELSE acc,
                 employee, timeline, i, j + 1)

\* the loop over employee_timelines.items()
RECURSIVE ConflictLoop(_, _, _)
ConflictLoop(acc, events, employees) ==
    IF employees = <<>> THEN acc
    ELSE ConflictLoop(
             ConflictPairs(acc, Head(employees), Timeline(events, Head(employees)), 1, 2),
             events, Tail(employees))

\* the list of conflicts detect_conflicts returns
detect_conflicts(events) ==
    ConflictLoop([conflicts |-> <<>>, conflict_details |-> {}],
                 events, Employees(events)).conflicts

\* IsTravelGap taking two events that touch for a connection
IsTravelGapFromZero(days) == 0 <= days /\ days <= 7

\* 0 < days_between <= 7
IsTravelGap(days) == 0 < days /\ days <= 7

\* employee_events[employee_name]: the events of the employee, with the dates
\* of the event
EmployeeEvents(events, employee_name) ==
    SelectSeq(Assignments(events), LAMBDA a : a.employee = employee_name)

\* days_between_next: from the end of the current event to the start of the
\* other one
DaysToNextFromStart(event, other_event) ==
    DaysBetween(other_event.event_from, event.from_date)

DaysToNext(event, other_event) ==
    DaysBetween(other_event.event_from, event.to_date)

\* the loop over emp_events for one reservation of the current event;
\* acc is [from_previous, to_next, has_connection]
RECURSIVE OtherEventsLoop(_, _, _, _)
OtherEventsLoop(acc, event, employee_name, emp_events) ==
    IF emp_events = <<>> THEN acc
    ELSE LET other_event == Head(emp_events)
             days_between_prev == DaysBetween(event.from_date, other_event.event_to)
             days_between_next == DaysToNext(event, other_event)
             prev == IsTravelGap(days_between_prev)
             next == IsTravelGap(days_between_next)
         IN  OtherEventsLoop(
                 IF other_event.event_id = event.event_id THEN acc
                 ELSE [from_previous |->
                           IF prev
                           THEN Append(acc.from_previous,
                                    [employee |-> employee_name,
                                     previous_event |-> other_event.event,
                                     days_gap |-> days_between_prev])
                           ELSE acc.from_previous,
                       to_next |->
                           IF next
                           THEN Append(acc.to_next,
                                    [employee |-> employee_name,
                                     next_event |-> other_event.event,
                                     days_gap |-> days_between_next])
                           ELSE acc.to_next,
                       has_connection |-> acc.has_connection \/ prev \/ next],
                 event, employee_name, Tail(emp_events))

\* the loop over the reservations of one event; acc is event_connections
RECURSIVE ReservationsLoop(_, _, _, _)
ReservationsLoop(acc, events, event, k) ==
    IF k > Len(event.reservations) THEN acc
    ELSE LET employee_name == event.reservations[k].employee
             r == OtherEventsLoop(
                      [from_previous |-> acc.from_previous, to_next |-> acc.to_next,
                       has_connection |-> FALSE],
                      event, employee_name, EmployeeEvents(events, employee_name))
         IN  ReservationsLoop(
                 [people_with_travel |->
                      IF r.has_connection
                      THEN Append(acc.people_with_travel, employee_name)
                      ELSE acc.people_with_travel,
                  from_previous |-> r.from_previous,
                  to_next |-> r.to_next],
                 events, event, k + 1)

EventConnections(events, event) ==
    ReservationsLoop(
        [people_with_travel |-> <<>>, from_previous |-> <<>>, to_next |-> <<>>],
        events, event, 1)

\* travel_connections: event id -> event_connections; the entry of the last
\* event carrying an id is the one that stays
detect_travel_connections(events) ==
    [id \in {events[i].event_id : i \in DOMAIN events} |->
        EventConnections(events,
            events[CHOOSE i \in DOMAIN events :
                      /\ events[i].event_id = id
                      /\ \A j \in DOMAIN events : events[j].event_id = id => j <= i])]

----------------------------------------------------------------------------
(* process_motorsport_data of src/app_backup.py: one assignment for every   *)
(* employee id of the event's PEOPLE RESERVED field.                        *)

\* employees_by_id: the last record carrying an id gives its name
EmployeesById(employees_data) ==
    [id \in {employees_data[i].id : i \in DOMAIN employees_data} |->
        Get(employees_data[CHOOSE i \in DOMAIN employees_data :
                               /\ employees_data[i].id = id
                               /\ \A j \in DOMAIN employees_data :
                                      employees_data[j].id = id => j <= i].fields,
            "Name", "Sin nombre")]

\* the reservation row the search loop stops at for (event, employee): the
\* first that links both and whose FROM and TO parse; 0 when there is none
MatchingRowLast(event_id, emp_id, reservations_data) ==
    LET matches == {k \in DOMAIN reservations_data :
                      LET res_fields == reservations_data[k].fields IN
                      /\ event_id \in Range(Get(res_fields, "EVENT", <<>>))
                      /\ emp_id \in Range(Get(res_fields, F_EMPLOYEE_LINK, <<>>))
                      /\ DatesParse(res_fields, "FROM", "TO")}
    IN  IF matches = {} THEN 0
        ELSE CHOOSE k \in matches : \A m \in matches : k >= m

MatchingRow(event_id, emp_id, reservations_data) ==
    LET matches == {k \in DOMAIN reservations_data :
                      LET res_fields == reservations_data[k].fields IN
                      /\ event_id \in Range(Get(res_fields, "EVENT", <<>>))
                      /\ emp_id \in Range(Get(res_fields, F_EMPLOYEE_LINK, <<>>))
                      /\ DatesParse(res_fields, "FROM", "TO")}
    IN  IF matches = {} THEN 0
        ELSE CHOOSE k \in matches : \A m \in matches : k <= m

\* the loop over people_reserved_ids of one event
LinkedReservations(event_record, reservations_data, employees_by_id) ==
    LET fields == event_record.fields
        people_reserved_ids == Get(fields, F_PEOPLE, <<>>)
    IN  [n \in DOMAIN people_reserved_ids |->
            LET emp_id == people_reserved_ids[n]
                emp_name == Get(employees_by_id, emp_id, "Sin nombre")
                k == MatchingRow(event_record.id, emp_id, reservations_data)
            IN  IF k # 0
                THEN LET res_fields == reservations_data[k].fields IN
                     [employee |-> emp_name,
                      from_date |-> res_fields["FROM"],
                      to_date |-> res_fields["TO"],
                      remote |-> Get(res_fields, "REMOTE", FALSE),
                      days |-> DaysBetween(res_fields["TO"], res_fields["FROM"]) + 1]
                ELSE [employee |-> emp_name,
                      from_date |-> fields["From"],
                      to_date |-> fields["To"],
                      remote |-> FALSE,
                      days |-> DaysBetween(fields["To"], fields["From"]) + 1]]

RECURSIVE AKSLoop(_, _, _, _, _)
AKSLoop(acc, events_data, reservations_data, employees_by_id, start_date) ==
    IF events_data = <<>> THEN acc
    ELSE LET event_record == Head(events_data)
             event_reservations ==
                 LinkedReservations(event_record, reservations_data, employees_by_id)
         IN  AKSLoop(
                 IF SkipsEvent(event_record, start_date) THEN acc
                 ELSE AddEvent(acc, event_record, event_reservations,
                               CountRemote(event_reservations), start_date),
                 Tail(events_data), reservations_data, employees_by_id, start_date)

\* the loop that adds the travel information to an event entry and to its
\* reservations
WithTravel(event, travel_connections) ==
    LET connections == travel_connections[event.event_id] IN
    [people_with_travel |-> connections.people_with_travel,
     travel_from_previous |-> connections.from_previous,
     travel_to_next |-> connections.to_next]
    @@ [event EXCEPT !.reservations =
           [k \in DOMAIN event.reservations |->
               [has_travel_connection |->
                    event.reservations[k].employee
                        \in Range(connections.people_with_travel)]
               @@ event.reservations[k]]]

\* The value process_motorsport_data returns: status "empty" is the empty dict.
\* The entries of unassigned_events and critical_dates are the objects of
\* events, so they carry the travel information too.  travel_connections is
\* what detect_travel_connections returned.
ProcessAKS(events_data, reservations_data, employees_data, start_date) ==
    IF events_data = <<>> THEN [status |-> "empty"]
    ELSE LET acc == AKSLoop(EmptyAcc, events_data, reservations_data,
                            EmployeesById(employees_data), start_date)
             processed_events == SortByFromDate(acc.processed_events)
             travel_connections == detect_travel_connections(processed_events)
             Travel(list) == [i \in DOMAIN list |-> WithTravel(list[i], travel_connections)]
         IN  [status |-> "ok",
              events |-> Travel(processed_events),
              unassigned_events |-> Travel(acc.unassigned_events),
              stats |-> [acc.stats EXCEPT !.critical_dates = Travel(@)],
              conflicts |-> detect_conflicts(processed_events),
              travel_connections |-> travel_connections]

----------------------------------------------------------------------------
(* Specification SpecFetch: one instance, its cache, the clock and a record *)
(* store whose tables the outside world edits.                              *)

AllPages == << <<"rec1", "rec2">>, <<"rec3">>, <<"rec4">> >>

\* What a table of the store can hold: nothing (one empty page), or the first
\* n pages of AllPages.
TableContents ==
    { << <<>> >> } \cup { SubSeq(AllPages, 1, n) : n \in 1..MaxPages }

TickSteps == {299, 301}

NoCall == [table |-> None, t |-> -1, status |-> "none", requests |-> <<>>,
           returned |-> <<>>, prev_t |-> -1, prev_returned |-> <<>>]

NoFetch == [t |-> -1, returned |-> <<>>]

InitIdle ==
    /\ version = "enterprise"
    /\ result = [status |-> "none"]
    /\ championship = <<>>
    /\ set_name = None
    /\ InitWeb

InitFetch ==
    /\ now = 0
    /\ store \in [FetchTables -> TableContents]
    /\ cache = <<>>
    /\ cache_expiry = <<>>
    /\ last = NoCall
    /\ fetched = [t \in FetchTables |-> NoFetch]
    /\ InitIdle

\* time passes
Tick(d) ==
    /\ now + d <= MaxTime
    /\ now' = now + d
    /\ UNCHANGED <<store, cache, cache_expiry, last, fetched, version, result,
                   championship, set_name>>
    /\ UNCHANGED webVars

\* the outside world edits a table of the record store
StoreUpdate(table_name, content) ==
    /\ store[table_name] # content
    /\ store' = [store EXCEPT ![table_name] = content]
    /\ UNCHANGED <<now, cache, cache_expiry, last, fetched, version, result,
                   championship, set_name>>
    /\ UNCHANGED webVars

\* a call of get_airtable_data(table_name)
Fetch(table_name, failAt, kind) ==
    LET r == GetAirtableData(cache, cache_expiry, store[table_name],
                             table_name, now, failAt, kind)
    IN  /\ cache' = r.cache
        /\ cache_expiry' = r.cache_expiry
        /\ last' = [table |-> table_name, t |-> now, status |-> r.status,
                    requests |-> r.requests, returned |-> r.records,
                    prev_t |-> fetched[table_name].t,
                    prev_returned |-> fetched[table_name].returned]
        /\ fetched' = IF r.status = "cached" THEN fetched
                      ELSE [fetched EXCEPT ![table_name] =
                                [t |-> now, returned |-> r.records]]
        /\ UNCHANGED <<now, store, version, result, championship, set_name>>
        /\ UNCHANGED webVars

NextFetch ==
    \/ \E d \in TickSteps : Tick(d)
    \/ \E t \in FetchTables, c \in TableContents : StoreUpdate(t, c)
    \/ \E t \in FetchTables, failAt \in 0..MaxPages, kind \in FailKinds :
           Fetch(t, failAt, kind)

SpecFetch == InitFetch /\ [][NextFetch]_vars

----------------------------------------------------------------------------
(* The records the reconciler specifications draw their stores from.        *)

Today == <<2025, 10, 18>>       \* datetime.now().date()

\* the date k days after Today
D(k) ==
    CHOOSE d \in (2025..2026) \X (1..12) \X (1..31) :
        Parses(d) /\ Ord(d) = Ord(Today) + k

NotADate == <<2026, 2, 30>>

Tables == {"EVENTS", "EVENTS RESERVATIONS", "Employee directory"}

\* A field that may be left out is drawn as <<>> (left out) or <<v>>.
Opt(v) == {<<>>, <<v>>}

Field(name, opt) == IF opt = <<>> THEN <<>> ELSE (name :> opt[1])

\* the tables of n records: record i has the id ids[i] and fields of fieldsOf(i)
RECURSIVE RecordTables(_, _, _)
RecordTables(ids, fieldSets, n) ==
    IF n = 0 THEN { <<>> }
    ELSE { Append(t, [id |-> ids[n], fields |-> f]) :
               t \in RecordTables(ids, fieldSets, n - 1), f \in fieldSets[n] }

\* a table served as one page
OnePage(records) == <<records>>

EventIds == <<"recE1", "recE2">>
ReservationIds == <<"recR1">>
P1 == "recP1"
P2 == "recP2"

\* what does not vary: the first event has a name and a championship, the
\* second has neither
FixedEventFields ==
    << ("EVENT NAME" :> "Le Mans")
           @@ (F_CHAMPIONSHIP :> << <<"F", "I", "A", " ", "W", "E", "C">> >>),
       <<>> >>

EmployeeRecord(id, name) == [id |-> id, fields |-> Field("Name", name)]

\* the value process_motorsport_data returns, with the records it worked on
WithInput(r, events_data, reservations_data, employees_data) ==
    [input |-> [events_data |-> events_data,
                reservations_data |-> reservations_data,
                employees_data |-> employees_data]] @@ r

\* what `last' and `fetched' show after a call r for table_name
LastAfter(f, table_name, r) ==
    [table |-> table_name, t |-> now, status |-> r.status,
     requests |-> r.requests, returned |-> r.records,
     prev_t |-> f[table_name].t, prev_returned |-> f[table_name].returned]

FetchedAfter(f, table_name, r) ==
    IF r.status = "cached" THEN f
    ELSE [f EXCEPT ![table_name] = [t |-> now, returned |-> r.records]]

\* In the reconciler specifications the record store answers every request.
AllSucceed == 0

\* process_motorsport_data of src/app.py, its two fetches included
ProcessMotorsportDataEnterprise ==
    LET r1 == GetAirtableData(cache, cache_expiry, store["EVENTS"],
                              "EVENTS", now, AllSucceed, "http_error")
        r2 == GetAirtableData(r1.cache, r1.cache_expiry, store["EVENTS RESERVATIONS"],
                              "EVENTS RESERVATIONS", now, AllSucceed, "http_error")
        f1 == FetchedAfter(fetched, "EVENTS", r1)
    IN  /\ version = "enterprise"
        /\ cache' = r2.cache
        /\ cache_expiry' = r2.cache_expiry
        /\ last' = LastAfter(f1, "EVENTS RESERVATIONS", r2)
        /\ fetched' = FetchedAfter(f1, "EVENTS RESERVATIONS", r2)
        /\ result' = WithInput(ProcessEnterprise(r1.records, r2.records, Today),
                               r1.records, r2.records, <<>>)
        /\ UNCHANGED <<now, store, version, championship, set_name>>
        /\ UNCHANGED webVars

\* process_motorsport_data of src/app_backup.py, its three fetches included
ProcessMotorsportDataAKS ==
    LET r1 == GetAirtableData(cache, cache_expiry, store["EVENTS"],
                              "EVENTS", now, AllSucceed, "http_error")
        r2 == GetAirtableData(r1.cache, r1.cache_expiry, store["EVENTS RESERVATIONS"],
                              "EVENTS RESERVATIONS", now, AllSucceed, "http_error")
        r3 == GetAirtableData(r2.cache, r2.cache_expiry, store["Employee directory"],
                              "Employee directory", now, AllSucceed, "http_error")
        f1 == FetchedAfter(fetched, "EVENTS", r1)
        f2 == FetchedAfter(f1, "EVENTS RESERVATIONS", r2)
    IN  /\ version = "aks"
        /\ cache' = r3.cache
        /\ cache_expiry' = r3.cache_expiry
        /\ last' = LastAfter(f2, "Employee directory", r3)
        /\ fetched' = FetchedAfter(f2, "Employee directory", r3)
        /\ result' = WithInput(ProcessAKS(r1.records, r2.records, r3.records, Today),
                               r1.records, r2.records, r3.records)
        /\ UNCHANGED <<now, store, version, championship, set_name>>
        /\ UNCHANGED webVars

InitReconciler ==
    /\ now = 0
    /\ cache = <<>>
    /\ cache_expiry = <<>>
    /\ last = NoCall
    /\ fetched = [t \in Tables |-> NoFetch]
    /\ result = [status |-> "none"]
    /\ championship = <<>>
    /\ set_name = None
    /\ InitWeb

----------------------------------------------------------------------------
(* Specification SpecReconcile: both versions of process_motorsport_data    *)
(* on stores of up to two events whose dates lie in, across and outside the *)
(* window, and up to one reservation record, well formed or not.            *)

\* <<From, To>> of an event: inside the window, past, across its start, across
\* its end, beyond it, on its last day, To no date, From left out
WindowDateChoices ==
    { << <<D(3)>>, <<D(5)>> >>,
      << <<D(-3)>>, <<D(-1)>> >>,
      << <<D(-2)>>, <<D(1)>> >>,
      << <<D(364)>>, <<D(366)>> >>,
      << <<D(366)>>, <<D(367)>> >>,
      << <<D(365)>>, <<D(365)>> >>,
      << <<D(3)>>, <<NotADate>> >>,
      << <<>>, <<D(5)>> >> }

WindowEventFields ==
    [i \in DOMAIN EventIds |->
        { Field("From", dp[1]) @@ Field("To", dp[2]) @@ Field("CONFIRMED", c)
              @@ Field(F_PEOPLE, p) @@ FixedEventFields[i] :
          dp \in WindowDateChoices, c \in Opt(TRUE), p \in Opt(<<P1>>) }]

\* a reservation of employee P1: EVENT left out, empty, the first event, or
\* both events with the second first; dates that parse or a TO that is no
\* date; REMOTE set or left out
WindowReservationFields ==
    [i \in DOMAIN ReservationIds |->
        { Field("EVENT", ev) @@ Field("FROM", <<D(3)>>) @@ Field("TO", <<to>>)
              @@ Field("REMOTE", rem)
              @@ (F_EMPLOYEE_LINK :> <<P1>>) @@ (F_EMPLOYEE_NAME :> <<"Ana">>) :
          ev \in {<<>>, << <<>> >>, << <<"recE1">> >>, << <<"recE2", "recE1">> >>},
          to \in {D(4), NotADate},
          rem \in Opt(TRUE) }]

InitReconcile ==
    /\ version \in {"enterprise", "aks"}
    /\ \E ne \in 0..Len(EventIds), nr \in 0..Len(ReservationIds) :
       \E events \in RecordTables(EventIds, WindowEventFields, ne),
          reservations \in RecordTables(ReservationIds, WindowReservationFields, nr) :
           store = [t \in Tables |->
                       IF t = "EVENTS" THEN OnePage(events)
                       ELSE IF t = "EVENTS RESERVATIONS" THEN OnePage(reservations)
                       ELSE OnePage(<<EmployeeRecord(P1, <<"Ana">>)>>)]
    /\ InitReconciler

NextReconcile ==
    \/ ProcessMotorsportDataEnterprise
    \/ ProcessMotorsportDataAKS

SpecReconcile == InitReconcile /\ [][NextReconcile]_vars

----------------------------------------------------------------------------
(* Specification SpecStaffing: process_motorsport_data of src/app_backup.py *)
(* on two confirmed events inside the window.  The first runs from day 9 to *)
(* day 11 after Today; the second lasts two days and starts on any day up   *)
(* to MaxStartDay, so that it ends before, meets or follows the first.      *)
(* Employee P1 is Ana; P2 has the same name, another one, or no directory   *)
(* entry.  Up to one reservation row gives an employee dates of their own.  *)

StaffingEventFields ==
    << { Field("From", <<D(9)>>) @@ Field("To", <<D(11)>>) @@ ("CONFIRMED" :> TRUE)
             @@ (F_PEOPLE :> p) @@ FixedEventFields[1] :
         p \in {<<P1>>, <<P1, P2>>} },
       { Field("From", <<D(k)>>) @@ Field("To", <<D(k + 1)>>) @@ ("CONFIRMED" :> TRUE)
             @@ Field(F_PEOPLE, p) @@ FixedEventFields[2] :
         k \in 0..MaxStartDay, p \in {<<>>, << <<P1>> >>, << <<P2, P1>> >>} } >>

\* <<FROM, TO>> of a reservation: the first day of the first event, its last day
\* and two more, TO before FROM, TO no date
StaffingReservationDates ==
    { <<D(9), D(9)>>, <<D(11), D(13)>>, <<D(5), D(3)>>, <<D(9), NotADate>> }

StaffingReservationFields ==
    [i \in DOMAIN ReservationIds |->
        { ("EVENT" :> <<ev>>) @@ (F_EMPLOYEE_LINK :> <<emp>>)
              @@ ("FROM" :> dp[1]) @@ ("TO" :> dp[2]) :
          ev \in Range(EventIds), emp \in {P1, P2}, dp \in StaffingReservationDates }]

StaffingDirectories ==
    { <<EmployeeRecord(P1, <<"Ana">>)>>,
      <<EmployeeRecord(P1, <<"Ana">>), EmployeeRecord(P2, <<"Ana">>)>>,
      <<EmployeeRecord(P1, <<"Ana">>), EmployeeRecord(P2, <<"Luis">>)>> }

InitStaffing ==
    /\ version = "aks"
    /\ \E nr \in 0..Len(ReservationIds) :
       \E events \in RecordTables(EventIds, StaffingEventFields, Len(EventIds)),
          reservations \in RecordTables(ReservationIds, StaffingReservationFields, nr),
          employees \in StaffingDirectories :
           store = [t \in Tables |->
                       IF t = "EVENTS" THEN OnePage(events)
                       ELSE IF t = "EVENTS RESERVATIONS" THEN OnePage(reservations)
                       ELSE OnePage(employees)]
    /\ InitReconciler

NextStaffing == ProcessMotorsportDataAKS

SpecStaffing == InitStaffing /\ [][NextStaffing]_vars

----------------------------------------------------------------------------
(* The web application: POST /config of both versions.  A form value is     *)
(* None when the form does not carry the field.                             *)

\* required, in POST /config of src/app.py
required ==
    <<"airtable_token", "tenant_id", "client_id", "client_secret", "sharepoint_site_url">>

DefaultInterval == 15
SecondsPerMinute == 60

\* Python's truth value of a form value: None and '' are false
Truthy(v) == v \notin {None, ""}

\* int(request.form.get('auto_update_interval', 15)); raises ValueError on text
\* that is no number
IntervalRaises(form) == form.auto_update_interval = "abc"

IntervalOf(form) ==
    IF form.auto_update_interval = None THEN DefaultInterval
    ELSE IF form.auto_update_interval = "1" THEN 1 ELSE 5

\* missing = [f for f in required if not config_data.get(f)]
MissingFields(config_data) ==
    SelectSeq(required, LAMBDA f : ~Truthy(config_data[f]))

\* the row log_update inserts
LogRow(status, message, events_processed, unassigned_events) ==
    [status |-> status, message |-> message,
     events_processed |-> events_processed, unassigned_events |-> unassigned_events]

\* What POST /config of src/app.py does with the form: the response, the
\* services it contacted, and the globals it leaves.  graph_ok: Microsoft Graph
\* hands out a token; failAt, kind: as in FetchLoop.
ConfigEnterprise(form, graph_ok, failAt, kind) ==
    LET config_data == [configured |-> TRUE]
                           @@ [form EXCEPT !.auto_update_interval = IntervalOf(form)]
        missing == MissingFields(config_data)
        kept == [calendar_instance |-> calendar_instance,
                 cache |-> cache, cache_expiry |-> cache_expiry,
                 last |-> last, fetched |-> fetched,
                 scheduler_running |-> scheduler_running, schedule |-> schedule,
                 logged |-> <<>>,
                 contacted |-> {}, created |-> FALSE, started |-> FALSE]
        made == [kept EXCEPT !.calendar_instance = config_data,
                             !.cache = <<>>, !.cache_expiry = <<>>,
                             !.created = TRUE]
        test_airtable == GetAirtableData(<<>>, <<>>, store["EVENTS"], "EVENTS",
                                         now, failAt, kind)
        fetchedOnce == [made EXCEPT !.cache = test_airtable.cache,
                                    !.cache_expiry = test_airtable.cache_expiry,
                                    !.last = LastAfter(fetched, "EVENTS", test_airtable),
                                    !.fetched = FetchedAfter(fetched, "EVENTS", test_airtable),
                                    !.contacted = {"graph", "airtable"}]
    IN  IF IntervalRaises(form)
        THEN [code |-> 500, error |-> "ValueError"] @@ kept
        ELSE IF missing # <<>>
        THEN [code |-> 400, error |-> "Faltan campos"] @@ kept
        ELSE IF ~graph_ok
        THEN [code |-> 400, error |-> "Error con Microsoft Graph"]
                 @@ [made EXCEPT !.contacted = {"graph"}]
        ELSE IF test_airtable.records = <<>>
        THEN [code |-> 400, error |-> "Error con Airtable"] @@ fetchedOnce
        ELSE [code |-> 200, error |-> None]
                 @@ [fetchedOnce EXCEPT
                        !.scheduler_running = TRUE,
                        !.schedule =
                            IF scheduler_running THEN schedule
                            ELSE <<[job |-> "auto_update",
                                    interval |-> SecondsPerMinute * IntervalOf(form),
                                    next_run |-> now + SecondsPerMinute * IntervalOf(form)]>>,
                        !.started = ~scheduler_running,
                        !.logged = <<LogRow("CONFIG", "Sistema configurado", 0, 0)>>]

\* What POST /config of src/app_backup.py does with the form.
ConfigAKS(form) ==
    [code |-> 200, error |-> None,
     calendar_instance |-> [configured |-> TRUE]
                               @@ [form EXCEPT !.auto_update_interval = DefaultInterval],
     cache |-> <<>>, cache_expiry |-> <<>>, last |-> last, fetched |-> fetched,
     scheduler_running |-> scheduler_running, schedule |-> schedule,
     logged |-> <<>>,
     contacted |-> {}, created |-> TRUE, started |-> FALSE]

\* a POST /config request, handled by the version that runs
PostConfig(form, graph_ok, failAt, kind) ==
    LET r == IF version = "enterprise"
             THEN ConfigEnterprise(form, graph_ok, failAt, kind)
             ELSE ConfigAKS(form)
    IN  /\ Len(update_logs) + Len(r.logged) <= MaxLogRows
        /\ calendar_instance' = r.calendar_instance
        /\ cache' = r.cache
        /\ cache_expiry' = r.cache_expiry
        /\ last' = r.last
        /\ fetched' = r.fetched
        /\ scheduler_running' = r.scheduler_running
        /\ schedule' = r.schedule
        /\ update_logs' = update_logs \o r.logged
        /\ response' = [route |-> "config", code |-> r.code, error |-> r.error,
                        form |-> form, contacted |-> r.contacted,
                        created |-> r.created, started |-> r.started,
                        logged |-> r.logged]
        /\ UNCHANGED <<now, store, version, result, championship, set_name,
                       cached_dashboard_data, last_update_status, update_stats,
                       pc, local>>

----------------------------------------------------------------------------
(* The web application of src/app.py: update attempts, manual (/update) and *)
(* automatic (auto_update, run by the scheduler thread).                    *)

\* process_motorsport_data of src/app.py as a call: the value it returns and
\* what it leaves, given what its two fetches r1 (EVENTS) and r2 (EVENTS
\* RESERVATIONS) returned
Processed(f, r1, r2) ==
    [value |-> ProcessEnterprise(r1.records, r2.records, Today),
     cache |-> r2.cache,
     cache_expiry |-> r2.cache_expiry,
     last |-> LastAfter(FetchedAfter(f, "EVENTS", r1), "EVENTS RESERVATIONS", r2),
     fetched |-> FetchedAfter(FetchedAfter(f, "EVENTS", r1), "EVENTS RESERVATIONS", r2),
     answered |-> {r1.status, r2.status} \subseteq {"ok", "cached"}]

\* its second fetch, after the first returned r1
ProcessAfterEvents(f, r1, failAt) ==
    Processed(f, r1, GetAirtableData(r1.cache, r1.cache_expiry,
                                     store["EVENTS RESERVATIONS"],
                                     "EVENTS RESERVATIONS", now, failAt, "http_error"))

\* the call on the cache c / expiry e.  failAt: as in FetchLoop, for each of
\* its fetches.
ProcessCall(c, e, f, failAt) ==
    ProcessAfterEvents(f, GetAirtableData(c, e, store["EVENTS"], "EVENTS", now,
                                          failAt, "http_error"), failAt)

\* run_full_update, after process_motorsport_data returned p: False when there
\* is no data, when process_motorsport_data raised, and when the Excel file is
\* not created.  excel_ok: Microsoft Graph hands out a token and takes the file.
FullUpdateOf(p, excel_ok) ==
    [success |-> p.value.status = "ok" /\ excel_ok,
     contacted_graph |-> p.value.status = "ok"] @@ p

RunFullUpdate(c, e, f, failAt, excel_ok) ==
    FullUpdateOf(ProcessCall(c, e, f, failAt), excel_ok)

\* stats.get('total_events', 0) of cached_dashboard_data.get('stats', {})
StatOf(data, name) ==
    IF data.status = "ok" THEN data.stats[name] ELSE 0

\* strftime('%d/%m/%Y %H:%M'): the instant to the minute.  A timestamp is <<>>
\* (None) or <<minute>>.
Minute(t) == t \div SecondsPerMinute

\* What an update attempt does, for route "update" (manual_update) and "auto"
\* (auto_update), after run_full_update returned u and, where it is called,
\* the second process_motorsport_data returned p2: the globals it leaves, the
\* rows it logs and, for /update, the status code.
UpdateOutcome(route, u, p2) ==
    IF ~u.success
    THEN [cache |-> u.cache, cache_expiry |-> u.cache_expiry,
          last |-> u.last, fetched |-> u.fetched,
          answered |-> u.answered, success |-> FALSE,
          update_stats |-> [update_stats EXCEPT !.total_updates = @ + 1],
          cached_dashboard_data |-> cached_dashboard_data,
          last_update_status |->
              IF route = "auto"
              THEN [success |-> FALSE, timestamp |-> <<Minute(now)>>]
              ELSE last_update_status,
          logged |-> IF route = "auto"
                     THEN <<LogRow("ERROR", "Error auto", 0, 0)>>
                     ELSE <<>>,
          code |-> 500]
    ELSE [cache |-> p2.cache, cache_expiry |-> p2.cache_expiry,
          last |-> p2.last, fetched |-> p2.fetched,
          answered |-> u.answered, success |-> TRUE,
          update_stats |-> [total_updates |-> update_stats.total_updates + 1,
                            successful_updates |-> update_stats.successful_updates + 1],
          last_update_status |->
              [success |-> TRUE, timestamp |-> <<Minute(now)>>, message |-> "OK"],
          cached_dashboard_data |->
              IF p2.value.status = "raised" THEN cached_dashboard_data ELSE p2.value,
          logged |->
              IF p2.value.status = "raised"
              THEN <<LogRow("ERROR", "IndexError", 0, 0)>>
              ELSE <<LogRow("SUCCESS",
                            IF route = "auto" THEN "Auto OK" ELSE "Manual OK",
                            StatOf(p2.value, "total_events"),
                            StatOf(p2.value, "unassigned_events"))>>,
          code |-> IF p2.value.status = "raised" THEN 500 ELSE 200]

\* the rows and counters the model keeps: all of them, or, where the state
\* space has to stay finite without stopping the clock, the latest rows and
\* counters that stay at MaxUpdates
Latest(rows) ==
    IF Len(rows) <= MaxLogRows THEN rows
    ELSE SubSeq(rows, Len(rows) - MaxLogRows + 1, Len(rows))

Saturated(stats) ==
    [k \in DOMAIN stats |-> IF stats[k] > MaxUpdates THEN MaxUpdates ELSE stats[k]]

\* the globals after an update attempt a
Attempted(a, window) ==
    /\ window \/ Len(update_logs) + Len(a.logged) <= MaxLogRows
    /\ window \/ a.update_stats.total_updates <= MaxUpdates
    /\ cache' = a.cache
    /\ cache_expiry' = a.cache_expiry
    /\ last' = a.last
    /\ fetched' = a.fetched
    /\ cached_dashboard_data' = a.cached_dashboard_data
    /\ last_update_status' = a.last_update_status
    /\ update_stats' = IF window THEN Saturated(a.update_stats) ELSE a.update_stats
    /\ update_logs' = IF window THEN Latest(update_logs \o a.logged)
                      ELSE update_logs \o a.logged

\* an update attempt: run_full_update, then, where it is called, the second
\* process_motorsport_data (failAt2 is its failAt), and what the handler
\* leaves
AttemptUpdate(route, failAt, excel_ok, failAt2, window) ==
    \E u \in {RunFullUpdate(cache, cache_expiry, fetched, failAt, excel_ok)} :
    \E p2 \in {ProcessCall(u.cache, u.cache_expiry, u.fetched, failAt2)} :
    \E a \in {UpdateOutcome(route, u, p2)} :
        /\ Attempted(a, window)
        /\ response' = [route |-> route, code |-> a.code, attempt |-> TRUE,
                        success |-> a.success, answered |-> a.answered,
                        logged |-> a.logged, assigned |-> a.code = 200]

\* a GET /update request
ManualUpdate(failAt, excel_ok, failAt2, window) ==
    /\ version = "enterprise"
    /\ IF calendar_instance = NoInstance
       THEN /\ response' = [route |-> "update", code |-> 400, attempt |-> FALSE,
                            logged |-> <<>>]
            /\ UNCHANGED <<cache, cache_expiry, last, fetched, cached_dashboard_data,
                           last_update_status, update_stats, update_logs>>
       ELSE AttemptUpdate("update", failAt, excel_ok, failAt2, window)
    /\ UNCHANGED <<now, store, version, result, championship, set_name,
                   calendar_instance, scheduler_running, schedule, pc, local>>

\* the scheduler thread: run_pending finds auto_update due and runs it
SchedulerRun(failAt, excel_ok, failAt2, window) ==
    /\ version = "enterprise"
    /\ scheduler_running
    /\ schedule # <<>>
    /\ now >= schedule[1].next_run
    /\ schedule' = <<[schedule[1] EXCEPT !.next_run = now + schedule[1].interval]>>
    /\ IF calendar_instance = NoInstance
       THEN /\ response' = [route |-> "auto", code |-> 400, attempt |-> FALSE,
                            logged |-> <<>>]
            /\ UNCHANGED <<cache, cache_expiry, last, fetched, cached_dashboard_data,
                           last_update_status, update_stats, update_logs>>
       ELSE AttemptUpdate("auto", failAt, excel_ok, failAt2, window)
    /\ UNCHANGED <<now, store, version, result, championship, set_name,
                   calendar_instance, scheduler_running, pc, local>>

----------------------------------------------------------------------------
(* The available-staff search of src/app_backup.py: find_available_staff    *)
(* and its route /api/available-staff.  Names and roles are sequences of    *)
(* characters.                                                              *)

fake_names ==
    << <<"a", "i", "r", "t", "a", "b", "l", "e", ".", "u", "s", "e", "r", "1">>,
       <<"t", "b", "a">>,
       <<"t", "b", "c">>,
       <<"t", "o", " ", "b", "e", " ", "a", "n", "n", "o", "u", "n", "c", "e", "d">>,
       <<"t", "o", " ", "b", "e", " ", "c", "o", "n", "f", "i", "r", "m", "e", "d">>,
       <<"p", "o", "r", " ", "c", "o", "n", "f", "i", "r", "m", "a", "r">>,
       <<"p", "o", "r", " ", "a", "n", "u", "n", "c", "i", "a", "r">>,
       <<"p", "e", "n", "d", "i", "e", "n", "t", "e">> >>

generic_names ==
    << <<"o", "p", "e", "r", "a", "t", "i", "o", "n", "s">>,
       <<"a", "d", "m", "i", "n">>,
       <<"i", "n", "f", "o">>,
       <<"c", "o", "n", "t", "a", "c", "t">>,
       <<"s", "u", "p", "p", "o", "r", "t">>,
       <<"o", "f", "f", "i", "c", "e">>,
       <<"s", "t", "a", "f", "f">>,
       <<"t", "e", "a", "m">>,
       <<"g", "e", "n", "e", "r", "a", "l">> >>

\* str.strip(): without the spaces at both ends
RECURSIVE Strip(_)
Strip(str) ==
    IF str = <<>> THEN str
    ELSE IF Head(str) = " " THEN Strip(Tail(str))
    ELSE IF str[Len(str)] = " " THEN Strip(SubSeq(str, 1, Len(str) - 1))
    ELSE str

SinNombre == <<"S", "i", "n", " ", "n", "o", "m", "b", "r", "e">>

MinNameLength == 3

\* filters 1 to 4: the name is kept
PassesNameFilters(emp_name) ==
    /\ ~Contains(emp_name, <<"@">>)
    /\ ~\E i \in DOMAIN fake_names : Contains(Strip(Lower(emp_name)), fake_names[i])
    /\ Len(Strip(emp_name)) >= MinNameLength
    /\ ~\E i \in DOMAIN generic_names : Contains(Lower(emp_name), Lower(generic_names[i]))

\* filter 5: role_filter is None or empty, both <<>> here, or occurs in the
\* role, whatever the case
PassesRoleFilter(emp_role, role_filter) ==
    \/ role_filter = <<>>
    \/ Contains(Lower(emp_role), Lower(role_filter))

\* the reservation blocks the range: it does not end before start_date nor
\* start after end_date
BlocksStrictly(res_start, res_end, start_date, end_date) ==
    ~(Ord(res_end) <= Ord(start_date) \/ Ord(res_start) >= Ord(end_date))

Blocks(res_start, res_end, start_date, end_date) ==
    ~(Ord(res_end) < Ord(start_date) \/ Ord(res_start) > Ord(end_date))

\* the set the event name of a reservation adds to sets_experience
ExperienceOf(res_fields) ==
    LET names == Get(res_fields, "Name (from EVENT)", <<>>)
        event_name == IF names # <<>> THEN names[1] ELSE <<>>
    IN  IF \E k \in DOMAIN championship_to_set :
               Contains(Upper(event_name), championship_to_set[k][1])
        THEN {FirstMatch(championship_to_set, 1, Upper(event_name))}
        ELSE {}

NoDate == <<>>

\* the loop over reservations_data from row i on, for the employee emp_id;
\* acc is [is_available, last_event_date, total_events, sets_experience]
RECURSIVE ScanLinkedReservations(_, _, _, _, _, _)
ScanLinkedReservations(acc, emp_id, reservations_data, i, start_date, end_date) ==
    IF i > Len(reservations_data) THEN acc
    ELSE
        LET res_fields == reservations_data[i].fields
            emp_link == Get(res_fields, F_EMPLOYEE_LINK, <<>>)
            counted == [acc EXCEPT !.total_events = @ + 1,
                                   !.sets_experience = @ \cup ExperienceOf(res_fields)]
            dated == [counted EXCEPT !.last_event_date =
                         IF @ = NoDate \/ Ord(res_fields["TO"]) > Ord(@)
                         THEN res_fields["TO"] ELSE @]
        IN  IF emp_id \notin Range(emp_link)
            THEN ScanLinkedReservations(acc, emp_id, reservations_data, i + 1,
                                  start_date, end_date)
            ELSE IF ~({"FROM", "TO"} \subseteq DOMAIN res_fields
                          /\ Parses(res_fields["FROM"]) /\ Parses(res_fields["TO"]))
            THEN ScanLinkedReservations(counted, emp_id, reservations_data, i + 1,
                                  start_date, end_date)
            ELSE IF Blocks(res_fields["FROM"], res_fields["TO"], start_date, end_date)
            THEN [dated EXCEPT !.is_available = FALSE]
            ELSE ScanLinkedReservations(dated, emp_id, reservations_data, i + 1,
                                  start_date, end_date)

DaysPerYear == 365
DaysPerEvent == 3
Nunca == "Nunca"

\* available_staff.sort(key=lambda x: x['total_events'], reverse=True): stable
RECURSIVE SortByTotalEvents(_)
SortByTotalEvents(staff) ==
    IF staff = <<>> THEN <<>>
    ELSE LET top == CHOOSE i \in DOMAIN staff :
                        /\ \A j \in DOMAIN staff : staff[j].total_events <= staff[i].total_events
                        /\ \A j \in 1..(i - 1) : staff[j].total_events < staff[i].total_events
         IN  <<staff[top]>> \o SortByTotalEvents(
                 SubSeq(staff, 1, top - 1) \o SubSeq(staff, top + 1, Len(staff)))

\* the loop over employees_data from record i on
RECURSIVE AvailableFrom(_, _, _, _, _, _)
AvailableFrom(employees_data, i, reservations_data, start_date, end_date, role_filter) ==
    IF i > Len(employees_data) THEN <<>>
    ELSE
        LET emp_record == employees_data[i]
            emp_name == Get(emp_record.fields, "Name", SinNombre)
            emp_role == Get(emp_record.fields, "POSITION", <<>>)
            scan == ScanLinkedReservations(
                        [is_available |-> TRUE, last_event_date |-> NoDate,
                         total_events |-> 0, sets_experience |-> {}],
                        emp_record.id, reservations_data, 1, start_date, end_date)
            days_available == DaysPerYear - scan.total_events * DaysPerEvent
            rest == AvailableFrom(employees_data, i + 1, reservations_data,
                                  start_date, end_date, role_filter)
        IN  IF PassesNameFilters(emp_name) /\ PassesRoleFilter(emp_role, role_filter)
               /\ scan.is_available
            THEN <<[name |-> emp_name,
                    email |-> Get(emp_record.fields, "EMAIL", <<>>),
                    role |-> emp_role,
                    total_events |-> scan.total_events,
                    sets_experience |-> scan.sets_experience,
                    last_event |-> IF scan.last_event_date # NoDate
                                   THEN <<DayMonthYear(scan.last_event_date)>>
                                   ELSE <<Nunca>>,
                    days_available |-> IF days_available > 0 THEN days_available ELSE 0]>>
                 \o rest
            ELSE rest

find_available_staff(employees_data, reservations_data, start_date, end_date, role_filter) ==
    SortByTotalEvents(AvailableFrom(employees_data, 1, reservations_data,
                                    start_date, end_date, role_filter))

\* a GET /api/available-staff request with the arguments start_date, end_date
\* and role (<<>>: left out or empty)
ApiAvailableStaff(start_date_str, end_date_str, role) ==
    LET r1 == GetAirtableData(cache, cache_expiry, store["Employee directory"],
                              "Employee directory", now, AllSucceed, "http_error")
        r2 == GetAirtableData(r1.cache, r1.cache_expiry, store["EVENTS RESERVATIONS"],
                              "EVENTS RESERVATIONS", now, AllSucceed, "http_error")
        args == [start_date |-> start_date_str, end_date |-> end_date_str, role |-> role]
    IN  /\ version = "aks"
        /\ IF calendar_instance = NoInstance
           THEN /\ response' = [route |-> "available-staff", code |-> 400,
                                error |-> "Sistema no configurado", args |-> args]
                /\ UNCHANGED <<cache, cache_expiry, last, fetched>>
           ELSE IF start_date_str = <<>> \/ end_date_str = <<>>
           THEN /\ response' = [route |-> "available-staff", code |-> 400,
                                error |-> "Faltan fechas", args |-> args]
                /\ UNCHANGED <<cache, cache_expiry, last, fetched>>
           ELSE IF ~(Parses(start_date_str) /\ Parses(end_date_str))
           THEN /\ response' = [route |-> "available-staff", code |-> 400,
                                error |-> "Formato de fecha invalido", args |-> args]
                /\ UNCHANGED <<cache, cache_expiry, last, fetched>>
           ELSE /\ response' =
                       [route |-> "available-staff", code |-> 200, args |-> args,
                        employees_data |-> r1.records,
                        reservations_data |-> r2.records,
                        staff |-> find_available_staff(r1.records, r2.records,
                                      start_date_str, end_date_str, role)]
                /\ cache' = r2.cache
                /\ cache_expiry' = r2.cache_expiry
                /\ last' = LastAfter(FetchedAfter(fetched, "Employee directory", r1),
                                     "EVENTS RESERVATIONS", r2)
                /\ fetched' = FetchedAfter(FetchedAfter(fetched, "Employee directory", r1),
                                           "EVENTS RESERVATIONS", r2)
        /\ UNCHANGED <<now, store, version, result, championship, set_name,
                       calendar_instance, scheduler_running, cached_dashboard_data,
                       update_logs, last_update_status, update_stats, schedule,
                       pc, local>>

----------------------------------------------------------------------------
(* The operational alert generator, material shipments.  The snapshots of   *)
(* the application that carry it are not among the sources modelled here;   *)
(* it is taken from the specification, section 4.5.                         *)

MaterialLeadDays == 5
UrgentDays == 7
WarningDays == 14
NoAlert == "none"

\* the urgency of the material shipment of an event that starts
\* days_until_event days from today
MaterialUrgencyBelow(days_until_event) ==
    LET material_departure_days == days_until_event - MaterialLeadDays IN
    IF days_until_event < 0 THEN NoAlert
    ELSE IF material_departure_days < UrgentDays THEN "urgent"
    ELSE IF material_departure_days < WarningDays THEN "warning"
    ELSE NoAlert

MaterialUrgency(days_until_event) ==
    LET material_departure_days == days_until_event - MaterialLeadDays IN
    IF days_until_event < 0 THEN NoAlert
    ELSE IF material_departure_days <= UrgentDays THEN "urgent"
    ELSE IF material_departure_days <= WarningDays THEN "warning"
    ELSE NoAlert

\* the material alerts of the events of events_data whose From parses, in the
\* order of the table
RECURSIVE MaterialAlerts(_, _)
MaterialAlerts(events_data, today) ==
    IF events_data = <<>> THEN <<>>
    ELSE LET event == Head(events_data)
             days_until_event == DaysBetween(event.fields["From"], today)
             urgency == MaterialUrgency(days_until_event)
         IN  (IF "From" \in DOMAIN event.fields /\ Parses(event.fields["From"])
                    /\ urgency # NoAlert
              THEN <<[event_id |-> event.id, days_until_event |-> days_until_event,
                      material_departure_days |-> days_until_event - MaterialLeadDays,
                      urgency |-> urgency]>>
              ELSE <<>>)
             \o MaterialAlerts(Tail(events_data), today)

\* the alert generator runs on the EVENTS table
GenerateAlerts ==
    LET r == GetAirtableData(cache, cache_expiry, store["EVENTS"], "EVENTS", now,
                             AllSucceed, "http_error")
    IN  /\ result.status = "none"
        /\ result' = [status |-> "alerts", events_data |-> r.records,
                      alerts |-> MaterialAlerts(r.records, Today)]
        /\ cache' = r.cache
        /\ cache_expiry' = r.cache_expiry
        /\ last' = LastAfter(fetched, "EVENTS", r)
        /\ fetched' = FetchedAfter(fetched, "EVENTS", r)
        /\ UNCHANGED <<now, store, version, championship, set_name>>
        /\ UNCHANGED webVars

----------------------------------------------------------------------------
(* Threads of src/app_backup.py (app.run(threaded=True)): a request that    *)
(* reads the fetcher cache in get_airtable_data, statement by statement,    *)
(* and a manual refresh (/update).  A thread may be suspended between two   *)
(* statements, and between two reads of self.cache within one statement     *)
(* sequence: each step below reads or writes the shared attributes once.    *)

\* the reader, thread "reader": a request calls get_airtable_data(table_name)
ReaderCall(table_name) ==
    /\ version = "aks"
    /\ calendar_instance # NoInstance
    /\ pc["reader"] = "idle"
    /\ pc' = [pc EXCEPT !["reader"] = "in_cache"]
    /\ local' = [local EXCEPT !["reader"] =
                    [table_name |-> table_name,
                     cached_at_call |-> Get(cache, CacheKey(table_name), <<>>)]]
    /\ UNCHANGED <<now, store, cache, cache_expiry, last, fetched, version, result,
                   championship, set_name, calendar_instance, scheduler_running,
                   cached_dashboard_data, update_logs, last_update_status,
                   update_stats, schedule, response>>

\* if cache_key in self.cache:
ReaderInCache ==
    /\ pc["reader"] = "in_cache"
    /\ pc' = [pc EXCEPT !["reader"] =
                 IF CacheKey(local["reader"].table_name) \in DOMAIN cache
                 THEN "not_expired" ELSE "fetch"]
    /\ UNCHANGED <<now, store, cache, cache_expiry, last, fetched, version, result,
                   championship, set_name, calendar_instance, scheduler_running,
                   cached_dashboard_data, update_logs, last_update_status,
                   update_stats, schedule, response, local>>

\* if datetime.now() < self.cache_expiry.get(cache_key, datetime.min):
ReaderNotExpired ==
    /\ pc["reader"] = "not_expired"
    /\ pc' = [pc EXCEPT !["reader"] =
                 IF now < Get(cache_expiry, CacheKey(local["reader"].table_name),
                              DatetimeMin)
                 THEN "return_cached" ELSE "fetch"]
    /\ UNCHANGED <<now, store, cache, cache_expiry, last, fetched, version, result,
                   championship, set_name, calendar_instance, scheduler_running,
                   cached_dashboard_data, update_logs, last_update_status,
                   update_stats, schedule, response, local>>

\* return self.cache[cache_key]: a KeyError when the dict self.cache now names
\* does not hold the key; nothing catches it before the request fails
ReaderReturnCached ==
    /\ pc["reader"] = "return_cached"
    /\ pc' = [pc EXCEPT !["reader"] = "idle"]
    /\ response' =
           IF CacheKey(local["reader"].table_name) \in DOMAIN cache
           THEN [route |-> "read", outcome |-> "returned",
                 table_name |-> local["reader"].table_name,
                 records |-> cache[CacheKey(local["reader"].table_name)],
                 cached_at_call |-> local["reader"].cached_at_call,
                 in_store |-> store[local["reader"].table_name][1]]
           ELSE [route |-> "read", outcome |-> "raised", error |-> "KeyError",
                 table_name |-> local["reader"].table_name]
    /\ UNCHANGED <<now, store, cache, cache_expiry, last, fetched, version, result,
                   championship, set_name, calendar_instance, scheduler_running,
                   cached_dashboard_data, update_logs, last_update_status,
                   update_stats, schedule, local>>

\* the requests to the store, and the two stores into self.cache and
\* self.cache_expiry when records came
ReaderFetch ==
    LET table_name == local["reader"].table_name
        r == GetAirtableData(<<>>, <<>>, store[table_name], table_name, now,
                             AllSucceed, "http_error")
    IN  /\ pc["reader"] = "fetch"
        /\ pc' = [pc EXCEPT !["reader"] = "idle"]
        /\ cache' = r.cache @@ cache
        /\ cache_expiry' = r.cache_expiry @@ cache_expiry
        /\ last' = LastAfter(fetched, table_name, r)
        /\ fetched' = FetchedAfter(fetched, table_name, r)
        /\ response' = [route |-> "read", outcome |-> "returned",
                        table_name |-> table_name,
                        records |-> r.records,
                        cached_at_call |-> local["reader"].cached_at_call,
                        in_store |-> store[table_name][1]]
        /\ UNCHANGED <<now, store, version, result, championship, set_name,
                       calendar_instance, scheduler_running, cached_dashboard_data,
                       update_logs, last_update_status, update_stats, schedule, local>>

\* the refresher, thread "refresher": GET /update.
\* calendar_instance.cache = {}
RefreshResetCache ==
    /\ version = "aks"
    /\ pc["refresher"] = "idle"
    /\ IF calendar_instance = NoInstance
       THEN /\ response' = [route |-> "update", code |-> 400]
            /\ UNCHANGED <<cache, pc>>
       ELSE /\ cache' = <<>>
            /\ pc' = [pc EXCEPT !["refresher"] = "reset_expiry"]
            /\ UNCHANGED response
    /\ UNCHANGED <<now, store, cache_expiry, last, fetched, version, result,
                   championship, set_name, calendar_instance, scheduler_running,
                   cached_dashboard_data, update_logs, last_update_status,
                   update_stats, schedule, local>>

\* calendar_instance.cache_expiry = {}
RefreshResetExpiry ==
    /\ pc["refresher"] = "reset_expiry"
    /\ cache_expiry' = <<>>
    /\ pc' = [pc EXCEPT !["refresher"] = "process"]
    /\ UNCHANGED <<now, store, cache, last, fetched, version, result,
                   championship, set_name, calendar_instance, scheduler_running,
                   cached_dashboard_data, update_logs, last_update_status,
                   update_stats, schedule, response, local>>

\* cached_dashboard_data = calendar_instance.process_motorsport_data()
RefreshProcess ==
    LET r1 == GetAirtableData(cache, cache_expiry, store["EVENTS"],
                              "EVENTS", now, AllSucceed, "http_error")
        r2 == GetAirtableData(r1.cache, r1.cache_expiry, store["EVENTS RESERVATIONS"],
                              "EVENTS RESERVATIONS", now, AllSucceed, "http_error")
        r3 == GetAirtableData(r2.cache, r2.cache_expiry, store["Employee directory"],
                              "Employee directory", now, AllSucceed, "http_error")
        f1 == FetchedAfter(fetched, "EVENTS", r1)
        f2 == FetchedAfter(f1, "EVENTS RESERVATIONS", r2)
        data == ProcessAKS(r1.records, r2.records, r3.records, Today)
    IN  /\ pc["refresher"] = "process"
        /\ pc' = [pc EXCEPT !["refresher"] = "idle"]
        /\ cache' = r3.cache
        /\ cache_expiry' = r3.cache_expiry
        /\ last' = LastAfter(f2, "Employee directory", r3)
        /\ fetched' = FetchedAfter(f2, "Employee directory", r3)
        /\ cached_dashboard_data' = IF data.status = "raised" THEN cached_dashboard_data
                                    ELSE data
        /\ response' = [route |-> "update",
                        code |-> IF data.status = "ok" THEN 200 ELSE 500]
        /\ UNCHANGED <<now, store, version, result, championship, set_name,
                       calendar_instance, scheduler_running, update_logs,
                       last_update_status, update_stats, schedule, local>>

----------------------------------------------------------------------------
(* Time without end.  The program compares instants with the present only   *)
(* (an expiry, the next run of a job), so the passing of d seconds is the   *)
(* same as moving every instant it keeps d seconds back; an instant that    *)
(* falls before the origin is DatetimeMin, earlier than every now.          *)

Earlier(t, d) == IF t - d < DatetimeMin THEN DatetimeMin ELSE t - d

Elapse(d) ==
    /\ cache_expiry' = [k \in DOMAIN cache_expiry |-> Earlier(cache_expiry[k], d)]
    /\ schedule' = [i \in DOMAIN schedule |->
                       [schedule[i] EXCEPT !.next_run = Earlier(@, d)]]
    /\ last' = [last EXCEPT !.t = Earlier(@, d), !.prev_t = Earlier(@, d)]
    /\ fetched' = [k \in DOMAIN fetched |-> [fetched[k] EXCEPT !.t = Earlier(@, d)]]
    /\ last_update_status' =
           [last_update_status EXCEPT !.timestamp =
               [i \in DOMAIN @ |-> Minute(Earlier(@[i] * SecondsPerMinute, d))]]
    /\ UNCHANGED <<now, store, cache, version, result, championship, set_name,
                   calendar_instance, scheduler_running, cached_dashboard_data,
                   update_logs, update_stats, response, pc, local>>

----------------------------------------------------------------------------
(* The snapshot cached_dashboard_data: the dashboard (GET /) of both        *)
(* versions, which fills it when it is None or empty, and GET /update of    *)
(* src/app_backup.py, which replaces it.                                    *)

\* process_motorsport_data of src/app_backup.py as a call: the value it
\* returns and what it leaves, given what its three fetches returned
ProcessedAKS(f, r1, r2, r3) ==
    [value |-> ProcessAKS(r1.records, r2.records, r3.records, Today),
     cache |-> r3.cache,
     cache_expiry |-> r3.cache_expiry,
     last |-> LastAfter(FetchedAfter(FetchedAfter(f, "EVENTS", r1),
                                     "EVENTS RESERVATIONS", r2),
                        "Employee directory", r3),
     fetched |-> FetchedAfter(FetchedAfter(FetchedAfter(f, "EVENTS", r1),
                                           "EVENTS RESERVATIONS", r2),
                              "Employee directory", r3),
     answered |-> {r1.status, r2.status, r3.status} \subseteq {"ok", "cached"}]

\* its third fetch, after the first two returned r1 and r2
ProcessAfterReservationsAKS(f, r1, r2, failAt) ==
    ProcessedAKS(f, r1, r2,
                 GetAirtableData(r2.cache, r2.cache_expiry, store["Employee directory"],
                                 "Employee directory", now, failAt, "http_error"))

\* its second fetch, after the first returned r1
ProcessAfterEventsAKS(f, r1, failAt) ==
    ProcessAfterReservationsAKS(f, r1,
        GetAirtableData(r1.cache, r1.cache_expiry, store["EVENTS RESERVATIONS"],
                        "EVENTS RESERVATIONS", now, failAt, "http_error"), failAt)

\* the call on the cache c / expiry e
ProcessCallAKS(c, e, f, failAt) ==
    ProcessAfterEventsAKS(f, GetAirtableData(c, e, store["EVENTS"], "EVENTS", now,
                                             failAt, "http_error"), failAt)

\* `not cached_dashboard_data': None and the empty dict are false
NoSnapshot(data) == data.status # "ok"

\* a GET / request of either version.  The page shows the snapshot; an
\* exception out of process_motorsport_data ends the request with status 500
\* and assigns nothing.  Without data src/app.py answers 200 with an error
\* text, src/app_backup.py answers 500.
DashboardView(failAt) ==
    \E p \in {IF version = "enterprise"
              THEN ProcessCall(cache, cache_expiry, fetched, failAt)
              ELSE ProcessCallAKS(cache, cache_expiry, fetched, failAt)} :
        /\ IF calendar_instance = NoInstance
           THEN /\ response' = [route |-> "dashboard", code |-> 200,
                                page |-> "config_needed", called |-> FALSE]
                /\ UNCHANGED <<cache, cache_expiry, last, fetched, cached_dashboard_data>>
           ELSE IF ~NoSnapshot(cached_dashboard_data)
           THEN /\ response' = [route |-> "dashboard", code |-> 200,
                                page |-> "dashboard", called |-> FALSE]
                /\ UNCHANGED <<cache, cache_expiry, last, fetched, cached_dashboard_data>>
           ELSE /\ cache' = p.cache
                /\ cache_expiry' = p.cache_expiry
                /\ last' = p.last
                /\ fetched' = p.fetched
                /\ cached_dashboard_data' =
                       IF p.value.status = "raised" THEN cached_dashboard_data
                       ELSE p.value
                /\ response' =
                       [route |-> "dashboard",
                        code |-> IF p.value.status = "raised" THEN 500
                                 ELSE IF p.value.status = "ok" \/ version = "enterprise"
                                      THEN 200 ELSE 500,
                        page |-> IF p.value.status = "ok" THEN "dashboard" ELSE "error",
                        called |-> TRUE]
        /\ UNCHANGED <<now, store, version, result, championship, set_name,
                       calendar_instance, scheduler_running, update_logs,
                       last_update_status, update_stats, schedule, pc, local>>

\* a GET /update request of src/app_backup.py: the fetcher cache is emptied
\* and the snapshot becomes whatever process_motorsport_data returns
ManualUpdateAKS(failAt) ==
    \E p \in {ProcessCallAKS(<<>>, <<>>, fetched, failAt)} :
        /\ version = "aks"
        /\ IF calendar_instance = NoInstance
           THEN /\ response' = [route |-> "update", code |-> 400, attempt |-> FALSE]
                /\ UNCHANGED <<cache, cache_expiry, last, fetched, cached_dashboard_data>>
           ELSE /\ cache' = p.cache
                /\ cache_expiry' = p.cache_expiry
                /\ last' = p.last
                /\ fetched' = p.fetched
                /\ cached_dashboard_data' = p.value
                /\ response' = [route |-> "update", attempt |-> TRUE,
                                code |-> IF p.value.status = "ok" THEN 200 ELSE 500,
                                answered |-> p.answered]
        /\ UNCHANGED <<now, store, version, result, championship, set_name,
                       calendar_instance, scheduler_running, update_logs,
                       last_update_status, update_stats, schedule, pc, local>>

----------------------------------------------------------------------------
(* Threads of src/app.py (app.run(threaded=True) and the scheduler thread): *)
(* update attempts, statement by statement.  Thread "scheduler" runs        *)
(* auto_update, every other updater is a request thread in manual_update.   *)
(* update_stats['k'] += 1 reads the counter and writes it back in separate  *)
(* bytecodes; a thread may be suspended between the two.  local[t] holds    *)
(* what the thread got from run_full_update, the counter value it read, and *)
(* how many attempts of the thread have come back from run_full_update.     *)

UpdaterThreads == {"web", "scheduler"}

RouteOf(t) == IF t = "scheduler" THEN "auto" ELSE "update"

IdleUpdater == [success |-> FALSE, answered |-> FALSE, loaded |-> 0, completed |-> 0]

\* where a thread stands that is about to read, or to write, the counter
LoadAt(counter) ==
    IF counter = "total_updates" THEN "load_total" ELSE "load_successful"

StoreAt(counter) ==
    IF counter = "total_updates" THEN "store_total" ELSE "store_successful"

\* success = calendar_instance.run_full_update()
UpdaterRunFullUpdate(t, failAt, excel_ok) ==
    \E u \in {RunFullUpdate(cache, cache_expiry, fetched, failAt, excel_ok)} :
        /\ version = "enterprise"
        /\ pc[t] = "idle"
        /\ calendar_instance # NoInstance
        /\ local[t].completed < MaxAttempts
        /\ IF t = "scheduler"
           THEN /\ scheduler_running
                /\ schedule # <<>>
                /\ now >= schedule[1].next_run
                /\ schedule' = <<[schedule[1] EXCEPT
                                     !.next_run = now + schedule[1].interval]>>
           ELSE UNCHANGED schedule
        /\ cache' = u.cache
        /\ cache_expiry' = u.cache_expiry
        /\ last' = u.last
        /\ fetched' = u.fetched
        /\ local' = [local EXCEPT ![t] =
                        [success |-> u.success, answered |-> u.answered,
                         loaded |-> 0, completed |-> @.completed + 1]]
        /\ pc' = [pc EXCEPT ![t] = LoadAt("total_updates")]
        /\ UNCHANGED <<now, store, version, result, championship, set_name,
                       calendar_instance, scheduler_running, cached_dashboard_data,
                       update_logs, last_update_status, update_stats, response>>

\* update_stats[counter] += 1, first half: the thread reads the counter
UpdaterLoad(t, counter) ==
    /\ pc[t] = LoadAt(counter)
    /\ local' = [local EXCEPT ![t].loaded = update_stats[counter]]
    /\ pc' = [pc EXCEPT ![t] = StoreAt(counter)]
    /\ UNCHANGED <<now, store, cache, cache_expiry, last, fetched, version, result,
                   championship, set_name, calendar_instance, scheduler_running,
                   cached_dashboard_data, update_logs, last_update_status,
                   update_stats, schedule, response>>

\* second half: it writes the value it read plus one; `if success:' decides
\* whether successful_updates follows
UpdaterStore(t, counter) ==
    /\ pc[t] = StoreAt(counter)
    /\ update_stats' = [update_stats EXCEPT ![counter] = local[t].loaded + 1]
    /\ pc' = [pc EXCEPT ![t] =
                 IF counter = "total_updates" /\ local[t].success
                 THEN LoadAt("successful_updates")
                 ELSE "finish"]
    /\ UNCHANGED <<now, store, cache, cache_expiry, last, fetched, version, result,
                   championship, set_name, calendar_instance, scheduler_running,
                   cached_dashboard_data, update_logs, last_update_status,
                   schedule, response, local>>

\* the rest of the handler: the status, the snapshot and the log row
UpdaterFinish(t) ==
    \E p2 \in {ProcessCall(cache, cache_expiry, fetched, AllSucceed)} :
    \E a \in {UpdateOutcome(RouteOf(t),
                            [success |-> local[t].success,
                             answered |-> local[t].answered,
                             cache |-> cache, cache_expiry |-> cache_expiry,
                             last |-> last, fetched |-> fetched], p2)} :
        /\ pc[t] = "finish"
        /\ pc' = [pc EXCEPT ![t] = "idle"]
        /\ cache' = a.cache
        /\ cache_expiry' = a.cache_expiry
        /\ last' = a.last
        /\ fetched' = a.fetched
        /\ cached_dashboard_data' = a.cached_dashboard_data
        /\ last_update_status' = a.last_update_status
        /\ update_logs' = Latest(update_logs \o a.logged)
        /\ response' = [route |-> RouteOf(t), code |-> a.code, attempt |-> TRUE,
                        success |-> a.success, answered |-> a.answered,
                        logged |-> a.logged, assigned |-> a.code = 200]
        /\ UNCHANGED <<now, store, version, result, championship, set_name,
                       calendar_instance, scheduler_running, update_stats,
                       schedule, local>>

----------------------------------------------------------------------------
(* Threads of src/app.py: POST /config requests and the scheduler threads   *)
(* start_scheduler creates, statement by statement.  A scheduler thread is  *)
(* "unstarted" until Thread.start() creates it, "started" until it executes *)
(* the first statement of run_scheduler, then "running".                    *)

WebThreads == {"web1", "web2"}

SchedulerThreads == {"run1", "run2"}

\* POST /config up to the call of start_scheduler: the form is read, the
\* instance installed, the Graph token and the EVENTS table tested.  An
\* error response ends the request.
ConfigRequest(w, form, graph_ok) ==
    \E r \in {ConfigEnterprise(form, graph_ok, AllSucceed, "http_error")} :
        /\ version = "enterprise"
        /\ pc[w] = "idle"
        /\ calendar_instance' = r.calendar_instance
        /\ cache' = r.cache
        /\ cache_expiry' = r.cache_expiry
        /\ last' = r.last
        /\ fetched' = r.fetched
        /\ IF r.code = 200
           THEN /\ pc' = [pc EXCEPT ![w] = "start_scheduler"]
                /\ UNCHANGED response
           ELSE /\ response' = [route |-> "config", code |-> r.code, error |-> r.error,
                                form |-> form, contacted |-> r.contacted,
                                created |-> r.created, started |-> FALSE,
                                logged |-> <<>>]
                /\ UNCHANGED pc
        /\ UNCHANGED <<now, store, version, result, championship, set_name,
                       scheduler_running, cached_dashboard_data, update_logs,
                       last_update_status, update_stats, schedule, local>>

\* start_scheduler: if scheduler_running or not calendar_instance: return
StartSchedulerTest(w) ==
    /\ pc[w] = "start_scheduler"
    /\ pc' = [pc EXCEPT ![w] =
                 IF scheduler_running \/ calendar_instance = NoInstance
                 THEN "log_update" ELSE "schedule_job"]
    /\ UNCHANGED <<now, store, cache, cache_expiry, last, fetched, version, result,
                   championship, set_name, calendar_instance, scheduler_running,
                   cached_dashboard_data, update_logs, last_update_status,
                   update_stats, schedule, response, local>>

\* schedule.clear(); schedule.every(interval).minutes.do(auto_update)
StartSchedulerJob(w) ==
    /\ pc[w] = "schedule_job"
    /\ schedule' = <<[job |-> "auto_update",
                      interval |-> SecondsPerMinute * calendar_instance.auto_update_interval,
                      next_run |-> now + SecondsPerMinute
                                            * calendar_instance.auto_update_interval]>>
    /\ pc' = [pc EXCEPT ![w] = "start_thread"]
    /\ UNCHANGED <<now, store, cache, cache_expiry, last, fetched, version, result,
                   championship, set_name, calendar_instance, scheduler_running,
                   cached_dashboard_data, update_logs, last_update_status,
                   update_stats, response, local>>

\* scheduler_thread = threading.Thread(target=run_scheduler, daemon=True);
\* scheduler_thread.start()
StartSchedulerThread(w, r) ==
    /\ pc[w] = "start_thread"
    /\ pc[r] = "unstarted"
    /\ pc' = [pc EXCEPT ![w] = "log_update", ![r] = "started"]
    /\ UNCHANGED <<now, store, cache, cache_expiry, last, fetched, version, result,
                   championship, set_name, calendar_instance, scheduler_running,
                   cached_dashboard_data, update_logs, last_update_status,
                   update_stats, schedule, response, local>>

\* log_update('CONFIG', ...) and the success response
ConfigAnswer(w) ==
    /\ pc[w] = "log_update"
    /\ pc' = [pc EXCEPT ![w] = "idle"]
    /\ update_logs' = Latest(Append(update_logs, LogRow("CONFIG", "Sistema configurado", 0, 0)))
    /\ response' = [route |-> "config", code |-> 200, error |-> None,
                    form |-> <<>>, contacted |-> {"graph", "airtable"},
                    created |-> TRUE, started |-> FALSE,
                    logged |-> <<LogRow("CONFIG", "Sistema configurado", 0, 0)>>]
    /\ UNCHANGED <<now, store, cache, cache_expiry, last, fetched, version, result,
                   championship, set_name, calendar_instance, scheduler_running,
                   cached_dashboard_data, last_update_status, update_stats,
                   schedule, local>>

\* run_scheduler, its first statement: scheduler_running = True
RunScheduler(r) ==
    /\ pc[r] = "started"
    /\ scheduler_running' = TRUE
    /\ pc' = [pc EXCEPT ![r] = "running"]
    /\ UNCHANGED <<now, store, cache, cache_expiry, last, fetched, version, result,
                   championship, set_name, calendar_instance, cached_dashboard_data,
                   update_logs, last_update_status, update_stats, schedule,
                   response, local>>

----------------------------------------------------------------------------
(* Specification SpecConfig: POST /config requests of both versions, with   *)
(* all credentials, with one of them left out or empty, and with none.      *)

AllSet == [f \in Range(required) |-> "secret"]

CredentialChoices ==
    {AllSet, [f \in Range(required) |-> None]}
        \cup {[AllSet EXCEPT ![f] = v] : f \in Range(required), v \in {None, ""}}

Forms ==
    {c @@ [auto_update_interval |-> i] :
        c \in CredentialChoices, i \in {None, "abc", "1"}}

\* an event of three days that starts in three days
GoodEvent ==
    [id |-> EventIds[1],
     fields |-> Field("From", <<D(3)>>) @@ Field("To", <<D(5)>>)
                    @@ ("CONFIRMED" :> TRUE) @@ FixedEventFields[1]]

InitConfig ==
    /\ version \in {"enterprise", "aks"}
    /\ \E events \in {<<>>, <<GoodEvent>>} :
           store = [t \in Tables |->
                       IF t = "EVENTS" THEN OnePage(events) ELSE OnePage(<<>>)]
    /\ InitReconciler

NextConfig ==
    \E form \in Forms, graph_ok \in BOOLEAN, failAt \in 0..1, kind \in FailKinds :
        PostConfig(form, graph_ok, failAt, kind)

SpecConfig == InitConfig /\ [][NextConfig]_vars

----------------------------------------------------------------------------
(* Specification SpecUpdates: src/app.py configured with every credential   *)
(* and an interval of one minute, then updated by hand and by the           *)
(* scheduler, while time passes and the record store is edited.  The store  *)
(* holds no event or one, and no reservation or one whose EVENT list is     *)
(* empty, on which process_motorsport_data raises.                          *)

EmptyLinkReservation ==
    [id |-> ReservationIds[1],
     fields |-> ("EVENT" :> <<>>) @@ ("FROM" :> D(3)) @@ ("TO" :> D(4))]

UpdateStoreContents ==
    [t \in Tables |->
        IF t = "EVENTS" THEN {OnePage(<<>>), OnePage(<<GoodEvent>>)}
        ELSE IF t = "EVENTS RESERVATIONS"
             THEN {OnePage(<<>>), OnePage(<<EmptyLinkReservation>>)}
             ELSE {OnePage(<<>>)}]

\* the time that passes between two looks at the application: longer than
\* the cache lives and than the interval
UpdateStep == CacheTTL + 1

MinuteForm == AllSet @@ [auto_update_interval |-> "1"]

InitUpdates ==
    /\ version = "enterprise"
    /\ store \in {st \in [Tables -> UNION {UpdateStoreContents[t] : t \in Tables}] :
                     \A t \in Tables : st[t] \in UpdateStoreContents[t]}
    /\ InitReconciler

NextUpdates ==
    \/ \E graph_ok \in BOOLEAN : PostConfig(MinuteForm, graph_ok, AllSucceed, "http_error")
    \/ \E failAt \in 0..1, excel_ok \in BOOLEAN, failAt2 \in 0..1 :
           ManualUpdate(failAt, excel_ok, failAt2, FALSE)
    \/ \E failAt \in 0..1, excel_ok \in BOOLEAN, failAt2 \in 0..1 :
           SchedulerRun(failAt, excel_ok, failAt2, FALSE)
    \/ Tick(UpdateStep)
    \/ \E c \in UpdateStoreContents["EVENTS"] : StoreUpdate("EVENTS", c)

SpecUpdates == InitUpdates /\ [][NextUpdates]_vars

----------------------------------------------------------------------------
(* Specification SpecStaff: src/app_backup.py is configured and asked for   *)
(* the staff available in a range.  The directory holds two employees, the  *)
(* first without a role and with a name that passes the filters or one that *)
(* each filter drops, the second a mechanic;                                *)
(* up to two reservation rows link employees and carry dates at and around  *)
(* the boundaries of the queried ranges.                                    *)

StaffNames ==
    { <<>>, <<<<"A", "n", "a", " ", "R", "u", "i", "z">>>>, <<<<" ", "A", "l", " ">>>>, <<<<"a", "@", "b">>>>,
      <<<<"T", "b", "a", " ", "1">>>>, <<<<"T", "e", "a", "m", " ", "A">>>> }

Mechanic == <<"C", "h", "i", "e", "f", " ", "M", "e", "c", "h", "a", "n", "i", "c">>

StaffDirectories ==
    { << [id |-> P1, fields |-> Field("Name", n) @@ Field("POSITION", r)],
         [id |-> P2, fields |-> ("Name" :> <<"L", "u", "i", "s">>) @@ ("POSITION" :> Mechanic)] >> :
      n \in StaffNames, r \in {<<>>} }

StaffReservationIds == <<"recR1", "recR2">>

StaffReservationFields ==
    << { Field(F_EMPLOYEE_LINK, link) @@ ("FROM" :> dp[1]) @@ ("TO" :> dp[2]) :
           link \in {<<>>, << <<P1>> >>, << <<P2, P1>> >>},
           dp \in { <<D(3), D(5)>>, <<D(6), D(8)>>, <<D(5), NotADate>> } },
       { (F_EMPLOYEE_LINK :> <<P1>>) @@ ("FROM" :> dp[1]) @@ ("TO" :> dp[2])
             @@ Field("Name (from EVENT)", n) :
           dp \in { <<D(3), D(5)>>, <<D(7), D(8)>> },
           n \in Opt(<<<<"6", "h", " ", "w", "e", "c">>>>) } >>

\* <<start_date, end_date>> of a request: two ranges, a date left out, no date
StaffQueries ==
    { <<D(5), D(6)>>, <<D(6), D(6)>>, <<<<>>, D(6)>>, <<D(5), NotADate>> }

InitStaff ==
    /\ version = "aks"
    /\ \E nr \in 0..Len(StaffReservationIds) :
       \E reservations \in RecordTables(StaffReservationIds, StaffReservationFields, nr),
          employees \in StaffDirectories :
           store = [t \in Tables |->
                       IF t = "EVENTS RESERVATIONS" THEN OnePage(reservations)
                       ELSE IF t = "Employee directory" THEN OnePage(employees)
                       ELSE OnePage(<<>>)]
    /\ InitReconciler

NextStaff ==
    \/ PostConfig(MinuteForm, TRUE, AllSucceed, "http_error")
    \/ \E q \in StaffQueries, role \in {<<>>, <<"m", "e", "c", "h">>} :
           ApiAvailableStaff(q[1], q[2], role)

SpecStaff == InitStaff /\ [][NextStaff]_vars

----------------------------------------------------------------------------
(* Specification SpecAlerts: the alert generator on a table of two events,  *)
(* the first starting from MaxPastDays days ago to MaxAlertDay days ahead,  *)
(* the second in two weeks, in three or without a date that parses.         *)

MaxPastDays == 2
MaxAlertDay == 21

AlertEventFields ==
    << { ("From" :> d) : d \in {D(k) : k \in (0 - MaxPastDays)..MaxAlertDay} },
       { Field("From", d) : d \in {<<>>, <<D(14)>>, <<D(21)>>, <<NotADate>>} } >>

InitAlerts ==
    /\ version = "enterprise"
    /\ \E ne \in 1..Len(EventIds) :
       \E events \in RecordTables(EventIds, AlertEventFields, ne) :
           store = [t \in Tables |->
                       IF t = "EVENTS" THEN OnePage(events) ELSE OnePage(<<>>)]
    /\ InitReconciler

NextAlerts == GenerateAlerts

SpecAlerts == InitAlerts /\ [][NextAlerts]_vars

----------------------------------------------------------------------------
(* Specification SpecLinks: process_motorsport_data of src/app_backup.py on *)
(* one event with none, one or two employees in PEOPLE RESERVED and up to   *)
(* two reservation rows that link the event or another one, first or        *)
(* second in their EVENT list, and one employee or both.                    *)

LinkEventFields ==
    << { Field("From", <<D(9)>>) @@ Field("To", <<D(11)>>) @@ ("CONFIRMED" :> TRUE)
             @@ Field(F_PEOPLE, p) @@ FixedEventFields[1] :
         p \in {<<>>, << <<P1>> >>, << <<P1, P2>> >>, << <<P2, P1>> >>} } >>

LinkReservationFields ==
    << { ("EVENT" :> ev) @@ (F_EMPLOYEE_LINK :> link) @@ ("FROM" :> D(9)) @@ ("TO" :> to)
             @@ Field("REMOTE", rem) :
           ev \in {<<"recE1">>, <<"recE2", "recE1">>, <<"recE2">>},
           link \in {<<P1>>, <<P2, P1>>},
           to \in {D(10), NotADate},
           rem \in Opt(TRUE) },
       { ("EVENT" :> ev) @@ (F_EMPLOYEE_LINK :> link) @@ ("FROM" :> D(10)) @@ ("TO" :> to) :
           ev \in {<<"recE1">>, <<"recE2">>},
           link \in {<<P1>>, <<P2, P1>>},
           to \in {D(11), NotADate} } >>

InitLinks ==
    /\ version = "aks"
    /\ \E nr \in 0..Len(StaffReservationIds) :
       \E events \in RecordTables(EventIds, LinkEventFields, 1),
          reservations \in RecordTables(StaffReservationIds, LinkReservationFields, nr) :
           store = [t \in Tables |->
                       IF t = "EVENTS" THEN OnePage(events)
                       ELSE IF t = "EVENTS RESERVATIONS" THEN OnePage(reservations)
                       ELSE OnePage(<<EmployeeRecord(P1, <<"Ana">>)>>)]
    /\ InitReconciler

NextLinks == ProcessMotorsportDataAKS

SpecLinks == InitLinks /\ [][NextLinks]_vars

----------------------------------------------------------------------------
(* Specification SpecRace: src/app_backup.py is configured once; then       *)
(* requests read tables through the fetcher cache while /update refreshes,  *)
(* in every interleaving of their steps, and time passes.                   *)

InitRace ==
    /\ version = "aks"
    /\ store = [t \in Tables |->
                   IF t = "EVENTS" THEN OnePage(<<GoodEvent>>)
                   ELSE IF t = "Employee directory"
                        THEN OnePage(<<EmployeeRecord(P1, <<"Ana">>)>>)
                        ELSE OnePage(<<>>)]
    /\ InitReconciler

NextRace ==
    \/ /\ calendar_instance = NoInstance
       /\ \A t \in Threads : pc[t] = "idle"
       /\ PostConfig(MinuteForm, TRUE, AllSucceed, "http_error")
    \/ \E table_name \in {"EVENTS", "Employee directory"} : ReaderCall(table_name)
    \/ ReaderInCache
    \/ ReaderNotExpired
    \/ ReaderReturnCached
    \/ ReaderFetch
    \/ RefreshResetCache
    \/ RefreshResetExpiry
    \/ RefreshProcess
    \/ Tick(UpdateStep)

SpecRace == InitRace /\ [][NextRace]_vars

----------------------------------------------------------------------------
(* Specification SpecScheduler: src/app.py configured, its scheduler thread *)
(* running for ever.  The record store answers every request and holds no  *)
(* reservation; the EVENTS table is edited; Microsoft Graph takes the Excel *)
(* file or refuses it.                                                      *)
(* The log keeps its latest MaxLogRows rows and the counters stop at        *)
(* MaxUpdates.  Time passes for ever and the thread, a loop of run_pending  *)
(* and sleep, is never starved: weak fairness on both.  The run of the      *)
(* thread is enabled exactly when the job is due and leaves it not due, so  *)
(* weak fairness on it is: again and again the job is not due.              *)

InitScheduler ==
    /\ InitUpdates
    /\ store["EVENTS RESERVATIONS"] = OnePage(<<>>)

AutoUpdateRuns ==
    \E excel_ok \in BOOLEAN : SchedulerRun(AllSucceed, excel_ok, AllSucceed, TRUE)

NextScheduler ==
    \/ PostConfig(MinuteForm, TRUE, AllSucceed, "http_error")
    \/ AutoUpdateRuns
    \/ Elapse(UpdateStep)
    \/ \E c \in UpdateStoreContents["EVENTS"] : StoreUpdate("EVENTS", c)

\* run_pending would run the job
JobDue ==
    /\ scheduler_running
    /\ schedule # <<>>
    /\ now >= schedule[1].next_run

SpecScheduler ==
    /\ InitScheduler
    /\ [][NextScheduler]_vars
    /\ WF_vars(Elapse(UpdateStep))
    /\ []<>~JobDue

----------------------------------------------------------------------------
(* Specification SpecSnapshot: either version, configured, then viewed and  *)
(* updated by hand and (src/app.py) by the scheduler, for ever, while the   *)
(* EVENTS table is edited and requests to the record store fail or not.     *)
(* The log keeps its latest MaxLogRows rows and the counters stop at        *)
(* MaxUpdates.                                                              *)

InitSnapshot ==
    /\ version \in {"enterprise", "aks"}
    /\ \E events \in {<<>>, <<GoodEvent>>} :
           store = [t \in Tables |->
                       IF t = "EVENTS" THEN OnePage(events) ELSE OnePage(<<>>)]
    /\ InitReconciler

NextSnapshot ==
    \/ /\ calendar_instance = NoInstance
       /\ PostConfig(MinuteForm, TRUE, AllSucceed, "http_error")
    \/ \E failAt \in 0..1 : DashboardView(failAt)
    \/ \E failAt \in 0..1 : ManualUpdateAKS(failAt)
    \/ \E failAt \in 0..1, excel_ok \in BOOLEAN :
           ManualUpdate(failAt, excel_ok, AllSucceed, TRUE)
    \/ \E failAt \in 0..1, excel_ok \in BOOLEAN :
           SchedulerRun(failAt, excel_ok, AllSucceed, TRUE)
    \/ Elapse(UpdateStep)
    \/ \E c \in UpdateStoreContents["EVENTS"] : StoreUpdate("EVENTS", c)

SpecSnapshot == InitSnapshot /\ [][NextSnapshot]_vars

----------------------------------------------------------------------------
(* Specification SpecCounters: src/app.py is configured once; then a        *)
(* request thread and the scheduler thread run update attempts, up to       *)
(* MaxAttempts each, in every interleaving of their steps, while time       *)
(* passes.  The store holds one event and no reservation; Microsoft Graph   *)
(* takes the Excel file or refuses it.                                      *)

InitCounters ==
    /\ version = "enterprise"
    /\ store = [t \in Tables |->
                   IF t = "EVENTS" THEN OnePage(<<GoodEvent>>) ELSE OnePage(<<>>)]
    /\ now = 0
    /\ cache = <<>>
    /\ cache_expiry = <<>>
    /\ last = NoCall
    /\ fetched = [t \in Tables |-> NoFetch]
    /\ result = [status |-> "none"]
    /\ championship = <<>>
    /\ set_name = None
    /\ calendar_instance = NoInstance
    /\ scheduler_running = FALSE
    /\ cached_dashboard_data = NoData
    /\ update_logs = <<>>
    /\ last_update_status = [success |-> FALSE, timestamp |-> <<>>, message |-> ""]
    /\ update_stats = [total_updates |-> 0, successful_updates |-> 0]
    /\ schedule = <<>>
    /\ response = NoResponse
    /\ pc = [t \in UpdaterThreads |-> "idle"]
    /\ local = [t \in UpdaterThreads |-> IdleUpdater]

NextCounters ==
    \/ /\ calendar_instance = NoInstance
       /\ PostConfig(MinuteForm, TRUE, AllSucceed, "http_error")
    \/ \E t \in UpdaterThreads, excel_ok \in BOOLEAN :
           UpdaterRunFullUpdate(t, AllSucceed, excel_ok)
    \/ \E t \in UpdaterThreads, counter \in DOMAIN update_stats : UpdaterLoad(t, counter)
    \/ \E t \in UpdaterThreads, counter \in DOMAIN update_stats : UpdaterStore(t, counter)
    \/ \E t \in UpdaterThreads : UpdaterFinish(t)
    \/ Elapse(UpdateStep)

SpecCounters == InitCounters /\ [][NextCounters]_vars

----------------------------------------------------------------------------
(* Specification SpecStart: src/app.py receives POST /config requests on    *)
(* two request threads, with every credential and an interval of one minute *)
(* or the default, while Microsoft Graph hands out a token or not; the      *)
(* scheduler threads they start run when the interpreter schedules them.    *)

StartForms == {MinuteForm, AllSet @@ [auto_update_interval |-> None]}

InitStart ==
    /\ version = "enterprise"
    /\ store = [t \in Tables |->
                   IF t = "EVENTS" THEN OnePage(<<GoodEvent>>) ELSE OnePage(<<>>)]
    /\ now = 0
    /\ cache = <<>>
    /\ cache_expiry = <<>>
    /\ last = NoCall
    /\ fetched = [t \in Tables |-> NoFetch]
    /\ result = [status |-> "none"]
    /\ championship = <<>>
    /\ set_name = None
    /\ calendar_instance = NoInstance
    /\ scheduler_running = FALSE
    /\ cached_dashboard_data = NoData
    /\ update_logs = <<>>
    /\ last_update_status = [success |-> FALSE, timestamp |-> <<>>, message |-> ""]
    /\ update_stats = [total_updates |-> 0, successful_updates |-> 0]
    /\ schedule = <<>>
    /\ response = NoResponse
    /\ pc = [t \in WebThreads \cup SchedulerThreads |->
                IF t \in WebThreads THEN "idle" ELSE "unstarted"]
    /\ local = [t \in WebThreads \cup SchedulerThreads |-> <<>>]

NextStart ==
    \/ \E w \in WebThreads, form \in StartForms, graph_ok \in BOOLEAN :
           ConfigRequest(w, form, graph_ok)
    \/ \E w \in WebThreads : StartSchedulerTest(w)
    \/ \E w \in WebThreads : StartSchedulerJob(w)
    \/ \E w \in WebThreads, r \in SchedulerThreads : StartSchedulerThread(w, r)
    \/ \E w \in WebThreads : ConfigAnswer(w)
    \/ \E r \in SchedulerThreads : RunScheduler(r)

SpecStart == InitStart /\ [][NextStart]_vars

----------------------------------------------------------------------------
(* Claims about the fetcher, under SpecFetch.  In `last', prev_t and        *)
(* prev_returned describe the latest earlier call for the same table that   *)
(* went to the record store.                                                *)

\* C2 (as stated): a fetch of a table at T, repeated less than 5 minutes later,
\* returns the cached record set without a new external call; repeated more
\* than 5 minutes later, it issues a fresh external call.
C2_RepeatWithinTTLServedFromCache ==
    last.prev_t >= 0 =>
        /\ last.t < last.prev_t + CacheTTL =>
               /\ last.status = "cached"
               /\ last.requests = <<>>
               /\ last.returned = last.prev_returned
        /\ last.t > last.prev_t + CacheTTL => last.requests # <<>>

\* C2 (amended): the same, for a fetch at T that returned at least one record.
C2_NonEmptyFetchCachedForTTL ==
    (last.prev_t >= 0 /\ last.prev_returned # <<>>) =>
        /\ last.t < last.prev_t + CacheTTL =>
               /\ last.status = "cached"
               /\ last.requests = <<>>
               /\ last.returned = last.prev_returned
        /\ last.t > last.prev_t + CacheTTL => last.requests # <<>>

\* C2 witness: a non-empty fetch at T repeated at T + 4min59s, after the table
\* was edited, is served from the cache.
C2_Witness ==
    /\ last.prev_t >= 0
    /\ last.prev_returned # <<>>
    /\ last.t = last.prev_t + 299
    /\ last.status = "cached"
    /\ last.returned # Flatten(store[last.table])

\* C6 (as stated): a fetch that fails, by an exception or by a non-200 response
\* on any page, returns an empty collection.
C6_FailedFetchReturnsEmpty ==
    last.status \in FailKinds => last.returned = <<>>

\* C7 (as stated): a fetch is treated as failed only after the failing request
\* has been issued max_retries times.
C7_FailingRequestRetried ==
    last.status \in FailKinds =>
        Cardinality({i \in DOMAIN last.requests :
                        last.requests[i] = last.requests[Len(last.requests)]})
            = max_retries

\* C8: a call whose page requests all succeed returns the records of all pages
\* of the table in page order, with one request per page: the first without a
\* cursor, each next one with the cursor of the page before.
C8_AllPagesInOrder ==
    [][ (last' # last /\ last'.status = "ok") =>
            /\ last'.returned = Flatten(store[last'.table])
            /\ last'.requests = [i \in 1..Len(store[last'.table]) |-> i - 1]
      ]_vars

\* C8 witness: a successful fetch of a table of two pages.
C8_Witness ==
    /\ last.status = "ok"
    /\ Len(last.requests) = 2
    /\ last.returned = <<"rec1", "rec2", "rec3">>

----------------------------------------------------------------------------
(* Specification SpecSet: _determine_set on championship strings made of up *)
(* to MaxTokens tokens: the keywords in upper, lower and capitalised case,  *)
(* and filler text.                                                         *)

Capitalised(str) ==
    [i \in DOMAIN str |-> IF i = 1 THEN UpperChar(str[i]) ELSE LowerChar(str[i])]

Keywords == {championship_to_set[k][1] : k \in DOMAIN championship_to_set}

Tokens ==
    Keywords \cup {Lower(k) : k \in Keywords} \cup {Capitalised(k) : k \in Keywords}
        \cup { <<" ">>, <<"G", "P">>, <<"e">>, <<"1">>, <<"2", "0", "2", "5">> }

ChampionshipInputs ==
    UNION { {Flatten(ts) : ts \in [1..n -> Tokens]} : n \in 0..MaxTokens }

InitFetcherIdle ==
    /\ now = 0
    /\ store = <<>>
    /\ cache = <<>>
    /\ cache_expiry = <<>>
    /\ last = NoCall
    /\ fetched = <<>>
    /\ InitWeb

InitSet ==
    /\ championship \in ChampionshipInputs
    /\ set_name = None
    /\ version = "enterprise"
    /\ result = [status |-> "none"]
    /\ InitFetcherIdle

\* a call of _determine_set(championship)
DetermineSet ==
    /\ set_name' = _determine_set(championship)
    /\ UNCHANGED <<now, store, cache, cache_expiry, last, fetched, version,
                   result, championship>>
    /\ UNCHANGED webVars

NextSet == DetermineSet

SpecSet == InitSet /\ [][NextSet]_vars

\* the entries of the keyword table whose keyword occurs in str, whatever the case
MatchingEntries(str) ==
    {k \in DOMAIN championship_to_set : Contains(Upper(str), championship_to_set[k][1])}

----------------------------------------------------------------------------
(* Claims about the reconciler, under SpecReconcile.  result.input holds    *)
(* the records the call worked on.                                          *)

Returned == result.status = "ok"

EventIdsOf(events) == {events[i].event_id : i \in DOMAIN events}

Occurrences(x, list) == Cardinality({j \in DOMAIN list : list[j] = x})

\* C4: the unassigned_events list holds exactly the processed events without
\* any assigned staff that are confirmed, each once.
C4_UnassignedAreConfirmedWithoutStaff ==
    Returned =>
        /\ \A i \in DOMAIN result.events :
               Occurrences(result.events[i], result.unassigned_events) =
                   IF Len(result.events[i].reservations) = 0
                      /\ result.events[i].confirmed
                   THEN Occurrences(result.events[i], result.events)
                   ELSE 0
        /\ \A j \in DOMAIN result.unassigned_events :
               /\ Occurrences(result.unassigned_events[j], result.events) = 1
               /\ Occurrences(result.unassigned_events[j], result.unassigned_events) = 1

\* C4 witness: of two processed events, one confirmed without staff and one
\* with staff, the list holds the first alone.
C4_Witness ==
    /\ Returned
    /\ \E i, k \in DOMAIN result.events :
           /\ result.events[i].confirmed
           /\ Len(result.events[i].reservations) = 0
           /\ Len(result.events[k].reservations) > 0
           /\ result.unassigned_events = <<result.events[i]>>

\* the record's dates parse and its range meets / lies inside the window
\* Today .. Today + 365 days
MeetsWindow(event_record) ==
    /\ DatesParse(event_record.fields, "From", "To")
    /\ Ord(event_record.fields["From"]) <= Ord(Today) + WindowDays
    /\ Ord(event_record.fields["To"]) >= Ord(Today)

InsideWindow(event_record) ==
    /\ DatesParse(event_record.fields, "From", "To")
    /\ \A f \in {"From", "To"} :
           /\ Ord(Today) <= Ord(event_record.fields[f])
           /\ Ord(event_record.fields[f]) <= Ord(Today) + WindowDays

\* C9 (as stated): an event record is in the events list iff its From and To
\* parse and its start and end both lie within Today .. Today + 365 days.
C9_IncludedIffInsideWindow ==
    Returned =>
        \A i \in DOMAIN result.input.events_data :
            (result.input.events_data[i].id \in EventIdsOf(result.events))
                <=> InsideWindow(result.input.events_data[i])

\* C9 (amended): an event record is in the events list iff its From and To
\* parse and its date range meets the window: it starts no later than
\* Today + 365 days and ends no earlier than Today.
C9_IncludedIffMeetsWindow ==
    Returned =>
        \A i \in DOMAIN result.input.events_data :
            (result.input.events_data[i].id \in EventIdsOf(result.events))
                <=> MeetsWindow(result.input.events_data[i])

\* C9 witness: an event that began before Today and ends after it is listed,
\* next to a record that is not listed.
C9_Witness ==
    /\ Returned
    /\ Len(result.input.events_data) = 2
    /\ Len(result.events) = 1
    /\ Ord(result.events[1].from_date) < Ord(Today)
    /\ Ord(result.events[1].to_date) > Ord(Today)

\* a record the loops cannot use: an event without two dates that parse; a
\* reservation without two dates that parse or without an event link
MalformedEvent(event_record) == ~DatesParse(event_record.fields, "From", "To")

MalformedReservation(res_record) ==
    \/ ~DatesParse(res_record.fields, "FROM", "TO")
    \/ Get(res_record.fields, "EVENT", <<>>) = <<>>

Without(list, i) == SubSeq(list, 1, i - 1) \o SubSeq(list, i + 1, Len(list))

\* what the running version returns on other records
Reprocess(events_data, reservations_data, employees_data) ==
    IF version = "enterprise"
    THEN ProcessEnterprise(events_data, reservations_data, Today)
    ELSE ProcessAKS(events_data, reservations_data, employees_data, Today)

\* the lists and statistics of a returned value; the empty dict holds none
Lists(r) ==
    IF r.status = "ok"
    THEN [raised |-> FALSE, events |-> r.events,
          unassigned_events |-> r.unassigned_events, stats |-> r.stats]
    ELSE [raised |-> r.status = "raised", events |-> <<>>,
          unassigned_events |-> <<>>, stats |-> EmptyStats]

\* C10 (as stated): process_motorsport_data does not raise on a malformed
\* event or reservation record, and its lists and statistics are those it
\* produces with the record taken away.
C10_MalformedRecordOnlyDropped ==
    result.status # "none" =>
        /\ result.status # "raised"
        /\ \A i \in DOMAIN result.input.events_data :
               MalformedEvent(result.input.events_data[i]) =>
                   Lists(Reprocess(Without(result.input.events_data, i),
                                   result.input.reservations_data,
                                   result.input.employees_data)) = Lists(result)
        /\ \A j \in DOMAIN result.input.reservations_data :
               MalformedReservation(result.input.reservations_data[j]) =>
                   Lists(Reprocess(result.input.events_data,
                                   Without(result.input.reservations_data, j),
                                   result.input.employees_data)) = Lists(result)

----------------------------------------------------------------------------
(* Claims about the detectors, under SpecStaffing.                          *)

\* the assignments of the events of the result, each with its employee, its
\* event and its own dates
Assigned == Assignments(result.events)

WellFormed(a) == Ord(a.from) <= Ord(a.to)

\* a conflict of the list names the two assignments: their employee, their
\* events and their dates, the earlier of the timeline first
ReportedBetween(b, a) ==
    \E n \in DOMAIN result.conflicts :
        LET c == result.conflicts[n] IN
        /\ c.employee = a.employee
        /\ \E first \in {a, b}, second \in {a, b} :
               /\ {first, second} = {a, b}
               /\ c.event1_id = first.event_id
               /\ c.event1_dates = <<DayMonth(first.from), DayMonth(first.to)>>
               /\ c.event2_id = second.event_id
               /\ c.event2_dates = <<DayMonth(second.from), DayMonth(second.to)>>

\* the employee has the assignments p and q in their events and no other
OnlyAssignments(p, q) ==
    {r \in DOMAIN Assigned :
        /\ Assigned[r].employee = Assigned[p].employee
        /\ Assigned[r].event_id \in {Assigned[p].event_id, Assigned[q].event_id}}
    = {p, q}

EventsOf(employee) ==
    {i \in DOMAIN result.events :
        \E k \in DOMAIN result.events[i].reservations :
            result.events[i].reservations[k].employee = employee}

AllEmployees == {Assigned[p].employee : p \in DOMAIN Assigned}

\* C3: for an employee assigned to an event and to another one, the
\* from_previous list of the event has an entry for the employee and the other
\* event iff the event starts 1 to 7 days after the other ends; it has none for
\* 0 days and none for 8.
C3_FromPreviousIffGapOneToSeven ==
    Returned =>
        \A e \in AllEmployees : \A i, j \in EventsOf(e) :
            LET current == result.events[i]
                other == result.events[j]
                gap == DaysBetween(current.from_date, other.to_date)
            IN  current.event_id # other.event_id =>
                    ((\E n \in DOMAIN result.travel_connections[current.event_id].from_previous :
                        LET entry == result.travel_connections[current.event_id].from_previous[n]
                        IN  /\ entry.employee = e
                            /\ entry.previous_event = other.event_name
                            /\ entry.days_gap = gap)
                     <=> (1 <= gap /\ gap <= 7))

\* C3 witness: an employee of two events seven days apart has a from_previous
\* entry in the later one.
C3_Witness ==
    /\ Returned
    /\ \E i \in DOMAIN result.events :
           LET fp == result.travel_connections[result.events[i].event_id].from_previous
           IN  \E n \in DOMAIN fp : fp[n].days_gap = 7

----------------------------------------------------------------------------
(* Claims about POST /config, under SpecConfig.                             *)

\* C11 (as stated): a POST /config with a required credential missing is
\* answered with an error, creates no calendar instance, contacts no external
\* service and does not start the scheduler.
C11_MissingCredentialShortCircuits ==
    (response.route = "config" /\ MissingFields(response.form) # <<>>) =>
        /\ response.code >= 400
        /\ ~response.created
        /\ response.contacted = {}
        /\ ~response.started
        /\ response.logged = <<>>

----------------------------------------------------------------------------
(* Claims about update attempts, under SpecUpdates.                         *)

\* C12 (as stated): every update attempt, manual or automatic, appends exactly
\* one row with status SUCCESS or ERROR, and no row of the log is ever modified
\* or deleted.
C12_EveryAttemptLogsOneRow ==
    [][ /\ Len(update_logs') >= Len(update_logs)
        /\ SubSeq(update_logs', 1, Len(update_logs)) = update_logs
        /\ update_stats'.total_updates # update_stats.total_updates
           => /\ Len(update_logs') = Len(update_logs) + 1
              /\ update_logs'[Len(update_logs')].status \in {"SUCCESS", "ERROR"}
      ]_vars

----------------------------------------------------------------------------
(* Claims about the available-staff search, under SpecStaff.                *)

\* the reservation row is linked to the employee and both its dates parse
LinkedAndDated(res_record, emp_record) ==
    /\ emp_record.id \in Range(Get(res_record.fields, F_EMPLOYEE_LINK, <<>>))
    /\ {"FROM", "TO"} \subseteq DOMAIN res_record.fields
    /\ Parses(res_record.fields["FROM"])
    /\ Parses(res_record.fields["TO"])

\* the reservation row starts no later than end_date and ends no earlier than
\* start_date
TouchesRange(res_record, start_date, end_date) ==
    /\ Ord(res_record.fields["FROM"]) <= Ord(end_date)
    /\ Ord(res_record.fields["TO"]) >= Ord(start_date)

PassesFilters(emp_record, role) ==
    /\ PassesNameFilters(Get(emp_record.fields, "Name", SinNombre))
    /\ PassesRoleFilter(Get(emp_record.fields, "POSITION", <<>>), role)

ReturnedAsAvailable(emp_record) ==
    \E k \in DOMAIN response.staff :
        response.staff[k].name = Get(emp_record.fields, "Name", SinNombre)

\* C13: find_available_staff returns an employee who passes the name and role
\* filters iff none of the reservations linked to the employee, with FROM and
\* TO that parse, overlaps [start_date, end_date], boundaries included.
C13_AvailableIffNoReservationInRange ==
    (response.route = "available-staff" /\ response.code = 200) =>
        \A emp_record \in Range(response.employees_data) :
            PassesFilters(emp_record, response.args.role) =>
                (ReturnedAsAvailable(emp_record) <=>
                    ~\E res_record \in Range(response.reservations_data) :
                        /\ LinkedAndDated(res_record, emp_record)
                        /\ TouchesRange(res_record, response.args.start_date,
                                        response.args.end_date))

\* an employee who passes the filters is kept out by a reservation that ends on
\* start_date, while another employee is returned
C13_Witness ==
    /\ response.route = "available-staff"
    /\ response.code = 200
    /\ response.staff # <<>>
    /\ \E emp_record \in Range(response.employees_data) :
           /\ PassesFilters(emp_record, response.args.role)
           /\ ~ReturnedAsAvailable(emp_record)
           /\ \A res_record \in Range(response.reservations_data) :
                  (LinkedAndDated(res_record, emp_record)
                       /\ TouchesRange(res_record, response.args.start_date,
                                       response.args.end_date))
                  => res_record.fields["TO"] = response.args.start_date

----------------------------------------------------------------------------
(* Claims about the alert generator, under SpecAlerts.                      *)

\* the material alerts of the event
AlertsOf(event_id) ==
    {k \in DOMAIN result.alerts : result.alerts[k].event_id = event_id}

\* C14: every event that has not started (days until >= 0) gets its material
\* urgency from the start minus 5 days: 'urgent' up to 12 days before the
\* event, 'warning' from 13 to 19 days before, nothing earlier; an event that
\* has started gets no alert.
C14_MaterialUrgencyByLeadTime ==
    result.status = "alerts" =>
        \A event \in Range(result.events_data) :
            ("From" \in DOMAIN event.fields /\ Parses(event.fields["From"])) =>
                LET days == Ord(event.fields["From"]) - Ord(Today) IN
                /\ (days < 0 \/ days > 19) => AlertsOf(event.id) = {}
                /\ (days >= 0 /\ days <= 19) =>
                       /\ Cardinality(AlertsOf(event.id)) = 1
                       /\ \A k \in AlertsOf(event.id) :
                              result.alerts[k].urgency =
                                  IF days <= 12 THEN "urgent" ELSE "warning"

\* an event twelve days ahead is urgent, next to one that is not
C14_Witness ==
    /\ result.status = "alerts"
    /\ \E k \in DOMAIN result.alerts :
           /\ result.alerts[k].days_until_event = 12
           /\ result.alerts[k].urgency = "urgent"
    /\ \E k \in DOMAIN result.alerts : result.alerts[k].urgency = "warning"

----------------------------------------------------------------------------
(* Claims about the reservation scan of src/app.py, under SpecReconcile.    *)

\* the reservation rows with FROM and TO that parse whose EVENT list holds
\* the id, at whatever position
RowsLinking(event_id) ==
    {j \in DOMAIN result.input.reservations_data :
        /\ DatesParse(result.input.reservations_data[j].fields, "FROM", "TO")
        /\ event_id \in Range(Get(result.input.reservations_data[j].fields,
                                  "EVENT", <<>>))}

\* C17 (as stated): on the reservation-scan path a reservation with FROM and TO
\* that parse is attached to an event iff the event's id is in the
\* reservation's EVENT list, at whatever position.
C17_AttachedIffEventInLinkList ==
    (Returned /\ version = "enterprise") =>
        \A i \in DOMAIN result.events :
            Len(result.events[i].reservations) =
                Cardinality(RowsLinking(result.events[i].event_id))

----------------------------------------------------------------------------
(* Claims about the travel connections and the dates they are measured on,  *)
(* under SpecStaffing.                                                      *)

\* the from_previous entries of the event of assignment a that name the
\* employee and the event of assignment b
FromPreviousEntries(a, b) ==
    LET fp == result.travel_connections[a.event_id].from_previous IN
    {n \in DOMAIN fp : fp[n].employee = a.employee /\ fp[n].previous_event = b.event}

\* C19 (as stated): the gap of a travel connection is measured between the
\* employee's own assignment date ranges, from the end of the other assignment
\* to the start of the current one: an employee whose reservation dates differ
\* from the event dates is classified by the reservation dates.
C19_GapBetweenAssignmentRanges ==
    Returned =>
        \A p, q \in DOMAIN Assigned :
            LET current == Assigned[p]
                other == Assigned[q]
                gap == Ord(current.from) - Ord(other.to)
                fp == result.travel_connections[current.event_id].from_previous
            IN  (/\ current.employee = other.employee
                 /\ current.event_id # other.event_id
                 /\ OnlyAssignments(p, q))
                => /\ (FromPreviousEntries(current, other) # {}) <=> (1 <= gap /\ gap <= 7)
                   /\ \A n \in FromPreviousEntries(current, other) : fp[n].days_gap = gap

\* the entries of a to_next or from_previous list, by the name under which
\* they file the other event, for employee e, other event named name, gap g
EntriesFor(list, key, e, name, g) ==
    {n \in DOMAIN list :
        list[n].employee = e /\ list[n][key] = name /\ list[n].days_gap = g}

GapsReported ==
    UNION { {c.to_next[n].days_gap : n \in DOMAIN c.to_next}
                \cup {c.from_previous[n].days_gap : n \in DOMAIN c.from_previous} :
            c \in Range([i \in DOMAIN result.events |->
                            result.travel_connections[result.events[i].event_id]]) }

\* C20: travel connections are symmetric: for an employee e and distinct
\* events A and B, the to_next list of A has an entry (e, next event B, gap g)
\* iff the from_previous list of B has an entry (e, previous event A, gap g),
\* and as many on one side as on the other.
C20_ToNextMirrorsFromPrevious ==
    Returned =>
        \A i, j \in DOMAIN result.events :
            LET A == result.events[i]
                B == result.events[j]
            IN  A.event_id # B.event_id =>
                    \A e \in AllEmployees, g \in GapsReported \cup (1..7) :
                        Cardinality(EntriesFor(result.travel_connections[A.event_id].to_next,
                                               "next_event", e, B.event_name, g))
                        = Cardinality(EntriesFor(
                                          result.travel_connections[B.event_id].from_previous,
                                          "previous_event", e, A.event_name, g))

\* an employee goes from an event whose reservation row gives them dates of
\* their own to another one two days after: one entry on each side
C20_Witness ==
    /\ Returned
    /\ \E i, j \in DOMAIN result.events :
           LET A == result.events[i]
               B == result.events[j]
           IN  /\ A.event_id # B.event_id
               /\ DaysBetween(B.from_date, A.to_date) = 2
               /\ \E k \in DOMAIN A.reservations : A.reservations[k].to_date # A.to_date
               /\ \E e \in AllEmployees :
                      Cardinality(EntriesFor(result.travel_connections[A.event_id].to_next,
                                             "next_event", e, B.event_name, 2)) = 1

----------------------------------------------------------------------------
(* Claims about the link-field path of src/app_backup.py, under SpecLinks.  *)

\* the record of the EVENTS table with the id
EventRecord(event_id) ==
    result.input.events_data[CHOOSE i \in DOMAIN result.input.events_data :
                                 result.input.events_data[i].id = event_id]

\* the reservation rows that link both the event and the employee and whose
\* FROM and TO parse
RowsLinkingBoth(event_id, emp_id) ==
    {k \in DOMAIN result.input.reservations_data :
        LET f == result.input.reservations_data[k].fields IN
        /\ event_id \in Range(Get(f, "EVENT", <<>>))
        /\ emp_id \in Range(Get(f, F_EMPLOYEE_LINK, <<>>))
        /\ DatesParse(f, "FROM", "TO")}

\* C18: on the link-field path every employee id of PEOPLE RESERVED yields one
\* assignment, in order: with the dates of the first reservation row that
\* links the event and the employee and has FROM and TO that parse, else with
\* the event's dates and remote false; employees_count is the length of
\* PEOPLE RESERVED.
C18_OneAssignmentPerReservedId ==
    (Returned /\ version = "aks") =>
        \A i \in DOMAIN result.events :
            LET entry == result.events[i]
                fields == EventRecord(entry.event_id).fields
                people == Get(fields, F_PEOPLE, <<>>)
            IN  /\ entry.employees_count = Len(people)
                /\ Len(entry.reservations) = Len(people)
                /\ \A n \in DOMAIN people :
                       LET a == entry.reservations[n]
                           rows == RowsLinkingBoth(entry.event_id, people[n])
                       IN  IF rows = {}
                           THEN /\ a.from_date = fields["From"]
                                /\ a.to_date = fields["To"]
                                /\ a.remote = FALSE
                           ELSE \E k \in rows :
                                  LET f == result.input.reservations_data[k].fields IN
                                  /\ \A other \in rows : k <= other
                                  /\ a.from_date = f["FROM"]
                                  /\ a.to_date = f["TO"]
                                  /\ a.remote = Get(f, "REMOTE", FALSE)

\* two employees are reserved; two rows link the first to the event, and the
\* second has no row: the first takes the dates of the first row, the second
\* those of the event
C18_Witness ==
    /\ Returned
    /\ version = "aks"
    /\ \E i \in DOMAIN result.events :
           LET entry == result.events[i]
               people == Get(EventRecord(entry.event_id).fields, F_PEOPLE, <<>>)
           IN  /\ Len(people) = 2
               /\ Cardinality(RowsLinkingBoth(entry.event_id, people[1])) = 2
               /\ RowsLinkingBoth(entry.event_id, people[2]) = {}
               /\ entry.reservations[1].to_date = D(10)
               /\ entry.reservations[2].to_date = entry.to_date

----------------------------------------------------------------------------
(* Claims about the threads of src/app_backup.py, under SpecRace.           *)

\* C16 (as stated): in every interleaving of a request that reads the fetcher
\* cache in get_airtable_data with a manual refresh that resets the cache, the
\* request completes without raising and returns the records cached when it
\* began or the records of the store.
C16_ReaderReturnsCachedOrFresh ==
    response.route = "read" =>
        /\ response.outcome = "returned"
        /\ response.records \in {response.cached_at_call, response.in_store}

----------------------------------------------------------------------------
(* Claims about the scheduler, under SpecScheduler, where the record store  *)
(* answers every fetch.                                                     *)

\* C15 (as stated): once the system is configured and the scheduler runs, the
\* snapshot cached_dashboard_data is eventually replaced by the result of a
\* newer reconciliation, again and again, as long as the record store answers.
C15_SnapshotEventuallyReplaced ==
    scheduler_running ~> (response.route = "auto" /\ response.attempt /\ response.assigned)

----------------------------------------------------------------------------
(* Claims about the ownership of assignments, under SpecReconcile.          *)

\* the assignments of the listed event i that were built from reservation
\* row k: on the reservation-scan path the row is appended to the event its
\* first EVENT link names; on the link-field path it is the row the search
\* stops at for an employee of the event's PEOPLE RESERVED
BuiltFrom(k, i) ==
    LET res_fields == result.input.reservations_data[k].fields
        event_id == result.events[i].event_id
        people == Get(EventRecord(event_id).fields, F_PEOPLE, <<>>)
    IN  IF version = "enterprise"
        THEN IF FirstEventLink(res_fields) = event_id
                /\ DatesParse(res_fields, "FROM", "TO")
             THEN {1} ELSE {}
        ELSE {n \in DOMAIN people :
                 MatchingRow(event_id, people[n], result.input.reservations_data) = k}

\* C21 (as stated): in the result of process_motorsport_data every reservation
\* record contributes an assignment to at most one event.
C21_ReservationOwnedByOneEvent ==
    Returned =>
        \A k \in DOMAIN result.input.reservations_data :
            Cardinality({i \in DOMAIN result.events : BuiltFrom(k, i) # {}}) <= 1

----------------------------------------------------------------------------
(* Claims about the snapshot cached_dashboard_data, under SpecSnapshot.     *)

\* C22 (as stated): once cached_dashboard_data holds a non-empty result, no
\* dashboard view, manual update or scheduler run replaces it with an empty
\* one.
C22_SnapshotNeverEmptied ==
    [][~NoSnapshot(cached_dashboard_data) => ~NoSnapshot(cached_dashboard_data')]_vars

----------------------------------------------------------------------------
(* Claims about what the fetcher cache holds, under SpecFetch.              *)

\* the step stores a value in the cache for the table
StoresInCache(table_name) ==
    /\ CacheKey(table_name) \in DOMAIN cache'
    /\ \/ CacheKey(table_name) \notin DOMAIN cache
       \/ cache'[CacheKey(table_name)] # cache[CacheKey(table_name)]
       \/ cache_expiry'[CacheKey(table_name)] # cache_expiry[CacheKey(table_name)]

\* C26 (as stated): every value stored in the fetcher cache for a table is the
\* complete record set of a fetch in which every page was retrieved
\* successfully; what a fetch cut short by a failed page gathered is never
\* cached.
C26_OnlyCompleteFetchesCached ==
    [][\A table_name \in FetchTables :
           StoresInCache(table_name) =>
               /\ last'.table = table_name
               /\ last'.status = "ok"
               /\ cache'[CacheKey(table_name)] = Flatten(store[table_name])]_vars

----------------------------------------------------------------------------
(* Claims about the conflicts reported, under SpecStaffing.                 *)

\* C27 (as stated): every conflict reported by detect_conflicts involves two
\* distinct events.
C27_ConflictBetweenDistinctEvents ==
    Returned =>
        \A n \in DOMAIN result.conflicts :
            result.conflicts[n].event1_id # result.conflicts[n].event2_id

\* the day a '%d/%m/%Y' text names, as a number of days
DayOf(day_month_year) ==
    Ord(<<day_month_year[3], day_month_year[2], day_month_year[1]>>)

\* the conflict reports assignments i and j of the result, i as event1 and j
\* as event2
ReportsPair(conflict, i, j) ==
    /\ i # j
    /\ Assigned[i].employee = conflict.employee
    /\ Assigned[j].employee = conflict.employee
    /\ Assigned[i].event_id = conflict.event1_id
    /\ Assigned[j].event_id = conflict.event2_id
    /\ conflict.event1_dates = <<DayMonth(Assigned[i].from), DayMonth(Assigned[i].to)>>
    /\ conflict.event2_dates = <<DayMonth(Assigned[j].from), DayMonth(Assigned[j].to)>>

\* C28 (as stated): for every conflict reported, event1 starts no later than
\* event2, overlap_start is the start of event2, overlap_end the earlier of
\* the two ends, and overlap_start <= overlap_end.
C28_OverlapRangeWellOrdered ==
    Returned =>
        \A n \in DOMAIN result.conflicts :
            /\ \E i, j \in DOMAIN Assigned :
                   /\ ReportsPair(result.conflicts[n], i, j)
                   /\ Ord(Assigned[i].from) <= Ord(Assigned[j].from)
                   /\ result.conflicts[n].overlap_start = DayMonthYear(Assigned[j].from)
                   /\ result.conflicts[n].overlap_end \in
                          {DayMonthYear(Assigned[i].to), DayMonthYear(Assigned[j].to)}
                   /\ DayOf(result.conflicts[n].overlap_end) <= Ord(Assigned[i].to)
                   /\ DayOf(result.conflicts[n].overlap_end) <= Ord(Assigned[j].to)
            /\ DayOf(result.conflicts[n].overlap_start)
                   <= DayOf(result.conflicts[n].overlap_end)

----------------------------------------------------------------------------
(* Claims about the statistics of a result, under SpecReconcile.            *)

\* the sum of the values of a dict of counts
RECURSIVE SumOfCounts(_)
SumOfCounts(d) ==
    IF DOMAIN d = {} THEN 0
    ELSE LET k == CHOOSE x \in DOMAIN d : TRUE
         IN  d[k] + SumOfCounts([x \in DOMAIN d \ {k} |-> d[x]])

\* the sum of employees_count over a list of events
RECURSIVE SumOfEmployeesCount(_)
SumOfEmployeesCount(events) ==
    IF events = <<>> THEN 0
    ELSE Head(events).employees_count + SumOfEmployeesCount(Tail(events))

\* C29: the statistics of every result of process_motorsport_data agree with
\* its lists: total_events is the number of events, unassigned_events the
\* length of the unassigned list, total_reservations the sum of
\* employees_count, the counts of events_by_set add up to total_events,
\* remote_assignments <= total_reservations, and every entry of
\* critical_dates is in the unassigned list.
C29_StatisticsAgreeWithLists ==
    Returned =>
        /\ result.stats.total_events = Len(result.events)
        /\ result.stats.unassigned_events = Len(result.unassigned_events)
        /\ result.stats.total_reservations = SumOfEmployeesCount(result.events)
        /\ SumOfCounts(result.stats.events_by_set) = result.stats.total_events
        /\ result.stats.remote_assignments <= result.stats.total_reservations
        /\ \A k \in DOMAIN result.stats.critical_dates :
               result.stats.critical_dates[k] \in Range(result.unassigned_events)

\* C29 witness: a result of two events of different categories, one staffed
\* with a remote assignment, the other unassigned and starting within a week.
C29_Witness ==
    /\ Returned
    /\ Len(result.events) = 2
    /\ Cardinality(DOMAIN result.stats.events_by_set) = 2
    /\ result.stats.total_reservations = 1
    /\ result.stats.remote_assignments = 1
    /\ Len(result.unassigned_events) = 1
    /\ Len(result.stats.critical_dates) = 1

----------------------------------------------------------------------------
(* Claims about last_update_status, under SpecUpdates.                      *)

\* C30 (as stated): after an update attempt, manual or automatic, has
\* completed, last_update_status['success'] is the outcome of that attempt:
\* true iff it succeeded, false after a failure or an exception.
C30_StatusShowsLatestAttempt ==
    (response.route \in {"update", "auto"} /\ response.attempt) =>
        last_update_status.success = response.assigned

----------------------------------------------------------------------------
(* Claims about the instance POST /config installs, under SpecConfig.       *)

\* C24 (as stated): a POST /config that returns an error response leaves the
\* global calendar_instance exactly as it was before the request.
C24_FailedConfigKeepsInstance ==
    [][(response'.route = "config" /\ response'.code # 200)
           => calendar_instance' = calendar_instance]_vars

----------------------------------------------------------------------------
(* Claims about the counters of update_stats, under SpecCounters.           *)

\* the attempts that came back from run_full_update, and those of them whose
\* thread has not yet written total_updates
AttemptsCompleted ==
    local["web"].completed + local["scheduler"].completed

AttemptsNotYetCounted ==
    Cardinality({t \in UpdaterThreads :
                    pc[t] \in {LoadAt("total_updates"), StoreAt("total_updates")}})

\* C23 (as stated): in every reachable state, under any interleaving of manual
\* and automatic updates, successful_updates <= total_updates, and
\* total_updates is the number of update attempts that have completed
\* run_full_update (once their threads have executed the increment).
C23_CountersMatchAttempts ==
    /\ update_stats.successful_updates <= update_stats.total_updates
    /\ update_stats.total_updates = AttemptsCompleted - AttemptsNotYetCounted

----------------------------------------------------------------------------
(* Claims about the scheduler threads, under SpecStart.                     *)

\* the scheduler threads Thread.start() has created
ThreadsStarted == {r \in SchedulerThreads : pc[r] # "unstarted"}

\* C25 (as stated): at most one scheduler thread is ever started, for any
\* sequence or interleaving of successful POST /config requests.
C25_AtMostOneSchedulerThread ==
    Cardinality(ThreadsStarted) <= 1

====
